---- MODULE Spec2Model ----
(***************************************************************************)
(* A model of maggtomic: an append-only store of datoms (e, a, v, t, o)    *)
(* kept in MongoDB collections, the URI interning layer, the transaction   *)
(* engine, the as-of view and the graph-pattern query evaluator.           *)
(*                                                                         *)
(* Representation.                                                         *)
(*  - An ObjectId is a natural number.  ObjectId() hands out increasing    *)
(*    numbers (nextOid); the four reserved ObjectIds are 0..3.  The        *)
(*    generation time of an ObjectId is its high part, oid \div            *)
(*    OidsPerSecond.                                                       *)
(*  - A string is a sequence of tokens, so that the string operations of   *)
(*    the code (split on ":", startswith, concatenation, the URI regular   *)
(*    expression) are computed and not looked up: "qudt:value" is          *)
(*    <<"qudt", ":", "value">>, "s://host/ns/myns#a" is                    *)
(*    <<"s", ":", "//", "host/ns/myns#", "a">>.                            *)
(*  - A value (field v, a term of a statement or of a clause, the value of *)
(*    a bound variable) is a record [k, n, s, p]: kind, number, string,    *)
(*    and for the single-entry mapping {?var: predicate} of a clause the   *)
(*    predicate.  A dict is a sequence of <<key, value>> pairs in          *)
(*    insertion order.                                                     *)
(***************************************************************************)
EXTENDS Integers, Sequences, FiniteSets, TLC

(* ------------------------------ bounds --------------------------------- *)
\* number of fresh ObjectIds the process may generate
MaxOid == 7
\* size of the space generate_id draws from (2^40 in the code)
MaxEid == 4
\* ObjectIds generated within one second of wall-clock time
OidsPerSecond == 2
\* number of statements a caller compiles for one transact
MaxBatch == 2
\* number of calls of create_collection and transact that write in one run
MaxCalls == 3
\* number of writes that may fail in one run
MaxFaults == 1
\* number of threads that resolve a URI concurrently
NumWorkers == 2
\* number of statements in key_time_statements of the self-test (20 in the code)
MaxKeys == 2
\* number of fresh ObjectIds the process may generate in a run of the self-test
MaxOidSelfTest == 9
\* number of calls of Service.send
MaxSends == 2
\* number of events in the list given to one Service.send
MaxSendLen == 2
\* greatest value of the data of an event and of an item of the context
MaxData == 2
\* number of processed events that are recorded for one call
MaxLog == 16

(* ------------------------------ values --------------------------------- *)
OidV(n) == [k |-> "oid", n |-> n, s |-> <<>>, p |-> <<>>]
StrV(s) == [k |-> "str", n |-> 0, s |-> s, p |-> <<>>]
IntV(n) == [k |-> "int", n |-> n, s |-> <<>>, p |-> <<>>]
TimeV(n) == [k |-> "time", n |-> n, s |-> <<>>, p |-> <<>>]
\* {var: predicate}, the predicate a dict of operators
DictV(var, predicate) == [k |-> "dict", n |-> 0, s |-> var, p |-> predicate]

\* isinstance(c, ObjectId), isinstance(c, str), isinstance(c, dict)
IsOid(x) == x.k = "oid"
IsStr(x) == x.k = "str"
IsDict(x) == x.k = "dict"

\* dict operations on sequences of <<key, value>> pairs
Keys(d) == {d[i][1] : i \in DOMAIN d}
Get(d, key) == d[CHOOSE i \in DOMAIN d : d[i][1] = key][2]
\* d[key] = value: an existing key keeps its place
Put(d, key, value) ==
  IF key \in Keys(d)
  THEN [i \in DOMAIN d |-> IF d[i][1] = key THEN <<key, value>> ELSE d[i]]
  ELSE Append(d, <<key, value>>)
\* d.update(q)
RECURSIVE Update(_, _)
Update(d, q) == IF q = <<>> THEN d ELSE Update(Put(d, q[1][1], q[1][2]), Tail(q))

\* fields of the MongoDB documents: e, a, v, t, o
Datom(e, a, v, t, o) == [e |-> e, a |-> a, v |-> v, t |-> t, o |-> o]

Colls == {"main", "other"}

\* the reserved ObjectIds
OID_URIREF == 0
OID_GENERATED_AT_TIME == 1
OID_VAEM_ID == 2
OID_QUDT_VALUE == 3
\* the first ObjectId that ObjectId() returns in this process
FirstOid == OID_QUDT_VALUE + 1

\* ObjectId.generation_time
generation_time(oid) == oid \div OidsPerSecond

(* ------------------------------ strings -------------------------------- *)
\* tokens matching [a-z]\w* (a URI scheme, a prefix name)
Words == {"http", "s", "qudt", "rdf", "vaem", "prov", "rdfs", "xsd", "myns"}

PREFIXES ==
  << <<"qudt", <<"http", ":", "//", "qudt.org/schema/qudt#">> >>,
     <<"rdf",  <<"http", ":", "//", "www.w3.org/1999/02/22-rdf-syntax-ns#">> >>,
     <<"vaem", <<"http", ":", "//", "www.linkedmodel.org/schema/vaem#">> >>,
     <<"prov", <<"http", ":", "//", "www.w3.org/ns/prov#">> >>,
     <<"rdfs", <<"http", ":", "//", "www.w3.org/2000/01/rdf-schema#">> >>,
     <<"xsd",  <<"http", ":", "//", "www.w3.org/2001/XMLSchema#">> >> >>

\* the additional prefixes a caller passes as use_prefixes
additional_prefixes ==
  << <<"myns", <<"s", ":", "//", "host/ns/myns#">> >>,
     <<"s", <<"http", ":", "//", "schema.org/">> >> >>

\* index of the first ":" of a string, 0 when there is none
RECURSIVE ColonAt(_, _)
ColonAt(s, i) ==
  IF i > Len(s) THEN 0 ELSE IF s[i] = ":" THEN i ELSE ColonAt(s, i + 1)

\* re.match(URI_BEGINNING_PATTERN, s): [a-z]\w*?://.
MatchesURI(s) ==
  /\ Len(s) >= 4
  /\ s[1] \in Words
  /\ s[2] = ":"
  /\ s[3] = "//"

\* one item of prefix_expand: item.split(":", 1), then the prefix map
ExpandItem(item, prefix) ==
  IF ~IsStr(item) THEN item
  ELSE LET s == item.s
           c == ColonAt(s, 1)
       IN  IF c = 0 THEN item
           ELSE LET pfx == SubSeq(s, 1, c - 1)
                    local_name == SubSeq(s, c + 1, Len(s))
                IN  IF Len(local_name) > 0 /\ local_name[1] = "//" THEN item
                    ELSE IF Len(pfx) = 1 /\ pfx[1] \in Keys(prefix)
                         THEN StrV(Get(prefix, pfx[1]) \o local_name)
                         ELSE StrV(pfx \o <<":">> \o local_name)

prefix_expand(items, use_prefixes) ==
  LET prefix == Update(PREFIXES, use_prefixes)
  IN  [i \in DOMAIN items |-> ExpandItem(items[i], prefix)]

CORE_CURIES ==
  << StrV(<<"rdf", ":", "resource">>), StrV(<<"prov", ":", "generatedAtTime">>),
     StrV(<<"vaem", ":", "id">>), StrV(<<"qudt", ":", "value">>) >>

\* use_prefixes=None
NoPrefixes == <<>>

\* CORE_ATTRIBUTES, as the tuple of expanded URIs in the order of CORE_CURIES
CORE_ATTRIBUTES == prefix_expand(CORE_CURIES, NoPrefixes)
URI_RESOURCE == CORE_ATTRIBUTES[1]
URI_GENERATED_AT_TIME == CORE_ATTRIBUTES[2]
URI_VAEM_ID == CORE_ATTRIBUTES[3]
URI_QUDT_VALUE == CORE_ATTRIBUTES[4]

\* a variant that lists a further attribute (myns:p) as literal-valued; AmendedC2
\* fails with it
LITERAL_VALUED_ATTRIBUTES_wider ==
  {URI_VAEM_ID, URI_QUDT_VALUE,
   prefix_expand(<<StrV(<<"myns", ":", "p">>)>>, additional_prefixes)[1]}

LITERAL_VALUED_ATTRIBUTES == {URI_VAEM_ID, URI_QUDT_VALUE}

(* ------------------------- shareable identifiers ------------------------ *)
\* ISO 7064 mod 97-10 check digits of a number
Checksum(n) == 98 - ((n * 100) % 97)

\* an encoded identifier is the number with its check digits
encode_id(n) == [num |-> n, chk |-> Checksum(n)]

\* decode_id: the number, after the checksum is verified (0 stands for the ValueError)
decode_id(enc) == IF enc.chk = Checksum(enc.num) THEN enc.num ELSE 0

\* the strings generate_id may return
generate_id == {encode_id(n) : n \in 1..MaxEid}

(* ------------------------------- state --------------------------------- *)
VARIABLES
  store,     \* store[c]: the documents of collection c, in insertion order
  exists,    \* exists[c]: c is in db.list_collection_names()
  cache,     \* _oids_cache: URI string -> ObjectId
  nextOid,   \* the next ObjectId that ObjectId() returns
  faults,    \* number of writes that may still fail
  calls,     \* number of calls of create_collection and transact that wrote
  last,      \* the last call, its arguments and its result
  proc,      \* proc[p]: where thread p is in _oids_for, and its local variables
  service    \* the Service of the harvester and its Machine

vars == <<store, exists, cache, nextOid, faults, calls, last, proc, service>>

\* the part of the state the library functions read and write; drawn is the
\* set of the identifiers generate_id has returned within the current call;
\* reverse tells in which of two orders the cursors of find return the
\* documents (find is called without a sort): insertion order or its reverse
\* limit is the number of ObjectIds the process may generate
World == [store |-> store, exists |-> exists, cache |-> cache, nextOid |-> nextOid,
          faults |-> faults, drawn |-> {}, reverse |-> FALSE, limit |-> MaxOid]

EmptyCache == [x \in {} |-> 0]

\* no Service has been constructed
NoService == [config |-> "none"]

NoCall == [op |-> "none"]

Workers == 1..NumWorkers

\* a thread that has not called _oids_for
Idle == [pc |-> "idle", coll |-> "None", docs |-> <<>>, missing |-> {}, new |-> <<>>,
         result |-> EmptyCache]

Init ==
  /\ store = [c \in Colls |-> <<>>]
  /\ exists = [c \in Colls |-> FALSE]
  /\ cache = EmptyCache
  /\ nextOid = FirstOid
  /\ faults = 0
  /\ calls = 0
  /\ last = NoCall
  /\ proc = [p \in Workers |-> Idle]
  /\ service = NoService

(* ------------------------------ the store ------------------------------ *)
\* the elements of a sequence
Range(q) == {q[i] : i \in DOMAIN q}

\* the order in which a cursor of world w returns the matching documents
Reverse(q) == [i \in DOMAIN q |-> q[Len(q) + 1 - i]]
InCursorOrder(w, docs) == IF w.reverse THEN Reverse(docs) ELSE docs

\* the orders in which a set can be iterated
Orders(S) == {q \in [1..Cardinality(S) -> S] : Range(q) = S}

\* ObjectId(): the process can still generate one
CanMint(w, n) == w.nextOid + n <= FirstOid + w.limit

\* coll = coll or db.main
OrMain(coll) == IF coll = "None" THEN "main" ELSE coll

\* coll.count_documents({A: OID_VAEM_ID, V: n}) > 0
EidTaken(w, coll, n) ==
  \E i \in DOMAIN w.store[coll] :
     w.store[coll][i].a = OID_VAEM_ID /\ w.store[coll][i].v = IntV(n)

\* the decoded identifiers that occur somewhere: in a collection or in the
\* statements compiled so far
KnownEids(w) ==
  {d.v.n : d \in {x \in UNION {Range(w.store[c]) : c \in Colls} :
                    x.a = OID_VAEM_ID /\ x.v.k = "int"}} \cup w.drawn

\* what generate_id can draw: any identifier.  Identifiers that occur nowhere
\* are interchangeable, so the smallest of them stands for all of them.
Draws(w) ==
  LET known == KnownEids(w)
  IN  {eid \in generate_id :
         \/ decode_id(eid) \in known
         \/ \A n \in 1..(decode_id(eid) - 1) : n \in known}

\* generate_id_unique: the identifiers the retry loop can return
generate_id_unique(w, coll) ==
  {eid \in Draws(w) : ~EidTaken(w, OrMain(coll), decode_id(eid))}

\* a variant that replaces the documents of the collection by the new ones;
\* AppendOnlyC7 fails with it
insert_many_replacing(w, coll, docs, k) ==
  [w EXCEPT !.store[coll] = SubSeq(docs, 1, k),
            !.exists[coll] = @ \/ k > 0,
            !.faults = IF k < Len(docs) THEN @ - 1 ELSE @]

\* coll.insert_many(docs), ordered and without a session: the documents are
\* written one after the other; a write that fails leaves the first k in place
insert_many(w, coll, docs, k) ==
  [w EXCEPT !.store[coll] = @ \o SubSeq(docs, 1, k),
            !.exists[coll] = @ \/ k > 0,
            !.faults = IF k < Len(docs) THEN @ - 1 ELSE @]

\* the number of documents an insert_many of n documents may persist
Persisted(w, n) == IF w.faults > 0 THEN 0..n ELSE {n}

\* the documents of one transaction: the operations, then the two reifying datoms
TxDocs(ops, t, t_eid_decoded) ==
  [i \in DOMAIN ops |-> Datom(ops[i].e, ops[i].a, ops[i].v, t, ops[i].o)]
  \o << Datom(t, OID_GENERATED_AT_TIME, TimeV(generation_time(t)), t, TRUE),
        Datom(t, OID_VAEM_ID, IntV(t_eid_decoded), t, TRUE) >>

\* _transact_raw: the set of outcomes [w, ok, docs]; ok = FALSE is the raised error
transact_raw(w, ops, coll_arg) ==
  IF ~CanMint(w, 1) THEN {}
  ELSE LET coll == OrMain(coll_arg)
           t == w.nextOid
           w1 == [w EXCEPT !.nextOid = @ + 1]
       IN  { [w |-> insert_many(w1, coll, TxDocs(ops, t, decode_id(r[1])), r[2]),
              ok |-> r[2] = Len(ops) + 2,
              docs |-> TxDocs(ops, t, decode_id(r[1]))]
             : r \in generate_id_unique(w, coll) \X Persisted(w, Len(ops) + 2) }

RawOp(e, a, v, o) == [e |-> e, a |-> a, v |-> v, o |-> o]

\* _assert_raw
assert_raw(w, raw_statements, coll) ==
  transact_raw(w, [i \in DOMAIN raw_statements |->
                     RawOp(raw_statements[i][1], raw_statements[i][2],
                           raw_statements[i][3], TRUE)], coll)

(* --------------------------- URI interning ----------------------------- *)
\* the dict a loop over the documents builds (a function from URI to ObjectId,
\* as _oids_cache is): the last document of a URI wins
DictOf(docs) ==
  [s \in {docs[i].v : i \in DOMAIN docs} |->
     docs[CHOOSE i \in DOMAIN docs :
            docs[i].v = s /\ \A j \in DOMAIN docs : j > i => docs[j].v # s].e]

\* db.main.find({A: OID_URIREF, V: {"$in": missing}}, [E, V])
FindUriRefs(w, missing) ==
  LET hits == InCursorOrder(w, SelectSeq(w.store["main"],
                LAMBDA d : d.a = OID_URIREF /\ IsStr(d.v) /\ d.v.s \in missing))
  IN  [i \in DOMAIN hits |-> [e |-> hits[i].e, v |-> hits[i].v.s]]

\* _oids_for: the set of outcomes [w, ok, rmap]
oids_for(w, resources, coll) ==
  IF \E r \in resources : ~MatchesURI(r)
  THEN {[w |-> w, ok |-> FALSE, rmap |-> EmptyCache]}
  ELSE
  LET hit == resources \cap DOMAIN w.cache
      order == CHOOSE q \in Orders(hit) : TRUE
      docs0 == [i \in DOMAIN order |-> [e |-> w.cache[order[i]], v |-> order[i]]]
      missing1 == resources \ hit
      docs1 == IF missing1 = {} THEN docs0 ELSE docs0 \o FindUriRefs(w, missing1)
      missing2 == resources \ {docs1[i].v : i \in DOMAIN docs1}
      Done(w2, docs) ==
        [w |-> [w2 EXCEPT !.cache = DictOf(docs) @@ @], ok |-> TRUE, rmap |-> DictOf(docs)]
  IN  IF missing2 = {} THEN {Done(w, docs1)}
      ELSE IF ~CanMint(w, Cardinality(missing2)) THEN {}
      ELSE UNION {
        LET new == [i \in DOMAIN q |-> [e |-> w.nextOid + i - 1, v |-> q[i]]]
            w1 == [w EXCEPT !.nextOid = @ + Len(q)]
        IN  { IF r.ok THEN Done(r.w, docs1 \o new)
              ELSE [w |-> r.w, ok |-> FALSE, rmap |-> EmptyCache]
              : r \in assert_raw(w1, [i \in DOMAIN new |->
                                        <<new[i].e, OID_URIREF, StrV(new[i].v)>>], coll) }
        : q \in Orders(missing2) }

(* ---------------------------- compilation ------------------------------ *)
\* rmap.get(c, c), as a value
Resolve(rmap, c) == IF IsStr(c) /\ c.s \in DOMAIN rmap THEN OidV(rmap[c.s]) ELSE c

\* a variant that interns the URIs of the statement before it validates the
\* statement; FailedCompileC18 fails with it
compile_to_raw_interning_first(w, statement, coll) ==
  LET entity == statement[1]
      attribute == statement[2]
      value == statement[3]
      resources == {c \in Range(statement) : IsStr(c) /\ MatchesURI(c.s)}
      non_literals == {c \in Range(statement) : IsOid(c)} \cup resources
      valid == /\ {entity, attribute} \subseteq non_literals
               /\ (value \in non_literals \/ attribute \in LITERAL_VALUED_ATTRIBUTES)
  IN  { [w |-> r.w, ok |-> r.ok /\ valid,
         raw |-> IF r.ok /\ valid
                 THEN << Resolve(r.rmap, entity).n, Resolve(r.rmap, attribute).n,
                         Resolve(r.rmap, value) >>
                 ELSE <<>>]
        : r \in oids_for(w, {c.s : c \in resources}, coll) }

\* _compile_to_raw: the set of outcomes [w, ok, raw]
compile_to_raw(w, statement, coll) ==
  LET entity == statement[1]
      attribute == statement[2]
      value == statement[3]
      objectIds == {c \in Range(statement) : IsOid(c)}
      resources == {c \in Range(statement) : IsStr(c) /\ MatchesURI(c.s)}
      non_literals == objectIds \cup resources
      Raise == {[w |-> w, ok |-> FALSE, raw |-> <<>>]}
  IN  IF ~({entity, attribute} \subseteq non_literals) THEN Raise
      ELSE IF value \notin non_literals /\ attribute \notin LITERAL_VALUED_ATTRIBUTES
      THEN Raise
      ELSE { [w |-> r.w, ok |-> r.ok,
              raw |-> IF r.ok
                      THEN << Resolve(r.rmap, entity).n, Resolve(r.rmap, attribute).n,
                              Resolve(r.rmap, value) >>
                      ELSE <<>>]
             : r \in oids_for(w, {c.s : c \in resources}, coll) }

\* a variant that gives the structured literal no shareable ID;
\* StructuredLiteralC12 fails with it
ensure_structured_literal_without_id(w, statement, use_prefixes, coll) ==
  LET x == prefix_expand(statement, use_prefixes)
      v_user_is_uri == IsStr(x[3]) /\ MatchesURI(x[3].s)
  IN  IF ~v_user_is_uri /\ x[2] \notin LITERAL_VALUED_ATTRIBUTES
      THEN IF ~CanMint(w, 1) THEN {}
           ELSE {[w |-> [w EXCEPT !.nextOid = @ + 1],
                  stmts |-> << <<x[1], x[2], OidV(w.nextOid)>>,
                               <<OidV(w.nextOid), URI_QUDT_VALUE, x[3]>> >>]}
      ELSE {[w |-> w, stmts |-> << <<x[1], x[2], x[3]>> >>]}

\* _ensure_structured_literal: the set of outcomes [w, stmts]
ensure_structured_literal(w, statement, use_prefixes, coll) ==
  LET x == prefix_expand(statement, use_prefixes)
      e_user == x[1]
      a_user == x[2]
      v_user == x[3]
      v_user_is_uri == IsStr(v_user) /\ MatchesURI(v_user.s)
  IN  IF ~v_user_is_uri /\ a_user \notin LITERAL_VALUED_ATTRIBUTES
      THEN IF ~CanMint(w, 1) THEN {}
           ELSE LET new_oid == OidV(w.nextOid)
                IN  { [w |-> [w EXCEPT !.nextOid = @ + 1,
                                       !.drawn = @ \cup {decode_id(v_eid)}],
                       stmts |-> << <<e_user, a_user, new_oid>>,
                                    <<new_oid, URI_QUDT_VALUE, v_user>>,
                                    <<new_oid, URI_VAEM_ID, IntV(decode_id(v_eid))>> >>]
                      : v_eid \in generate_id_unique(w, coll) }
      ELSE {[w |-> w, stmts |-> << <<e_user, a_user, v_user>> >>]}

\* [_compile_to_raw(s, coll=coll) for s in expanded_statements], from statement i on
RECURSIVE CompileAll(_, _, _, _, _)
CompileAll(w, stmts, coll, i, acc) ==
  IF i > Len(stmts) THEN {[w |-> w, ok |-> TRUE, raws |-> acc]}
  ELSE UNION { IF r.ok
               THEN CompileAll(r.w, stmts, coll, i + 1, Append(acc, r.raw))
               ELSE {[w |-> r.w, ok |-> FALSE, raws |-> <<>>]}
               : r \in compile_to_raw(w, stmts[i], coll) }

\* assert_or_retract: the set of outcomes [w, ok, ops]
assert_or_retract(w, statement, is_assert, use_prefixes, coll) ==
  UNION { { [w |-> r.w, ok |-> r.ok,
             ops |-> [i \in DOMAIN r.raws |->
                        RawOp(r.raws[i][1], r.raws[i][2], r.raws[i][3], is_assert)]]
            : r \in CompileAll(x.w, x.stmts, coll, 1, <<>>) }
          : x \in ensure_structured_literal(w, statement, use_prefixes, coll) }

\* assert_
assert_(w, statement, use_prefixes, coll) ==
  assert_or_retract(w, statement, TRUE, use_prefixes, coll)

\* retract
retract(w, statement, use_prefixes, coll) ==
  assert_or_retract(w, statement, FALSE, use_prefixes, coll)

\* transact: py_.flatten(rso_sequence) is the list the caller holds
transact(w, rso_sequence, coll) == transact_raw(w, rso_sequence, coll)

\* create_collection: the set of outcomes [w, ok]
create_collection(w, name, drop_guard) ==
  IF drop_guard /\ w.exists[name] THEN {[w |-> w, ok |-> FALSE, docs |-> <<>>]}
  ELSE LET w1 == [w EXCEPT !.store[name] = <<>>,
                           !.exists[name] = TRUE,
                           !.cache = EmptyCache]
       IN  assert_raw(w1,
             << <<OID_URIREF, OID_URIREF, URI_RESOURCE>>,
                <<OID_GENERATED_AT_TIME, OID_URIREF, URI_GENERATED_AT_TIME>>,
                <<OID_VAEM_ID, OID_URIREF, URI_VAEM_ID>>,
                <<OID_QUDT_VALUE, OID_URIREF, URI_QUDT_VALUE>> >>, "None")

(* ------------------------------- filters ------------------------------- *)
\* A filter is a dict from field to condition; a condition is a dict from
\* operator to operand, and an operand is the set of the values it names
\* (one value, or the members of the list of "$in").  filter_[field] = value,
\* the condition of equality, is the operator "$eq".
Direct(x) == << <<"$eq", {x}>> >>

\* doc[field], as a value
FieldOf(doc, field) == IF field = "v" THEN doc.v ELSE OidV(doc[field])

\* the order of MongoDB on values of one type
Lte(x, y) == x.k = y.k /\ x.k \in {"oid", "int", "time"} /\ x.n <= y.n

\* the query operators of MongoDB that the filters of the model use; find
\* raises an error for a name that is not an operator of MongoDB
MongoOperators == {"$eq", "$in", "$nin", "$lte", "$lt", "$gt"}

Holds(op, operand, x) ==
  CASE op = "$eq" -> x \in operand
    [] op = "$in" -> x \in operand
    [] op = "$nin" -> x \notin operand
    [] op = "$lte" -> \E y \in operand : Lte(x, y)
    [] op = "$lt" -> \E y \in operand : Lte(x, y) /\ x # y
    [] op = "$gt" -> \E y \in operand : Lte(y, x) /\ x # y

\* every operator of the filter is one that MongoDB knows
Supported(filter_) ==
  \A i \in DOMAIN filter_ :
     \A j \in DOMAIN filter_[i][2] : filter_[i][2][j][1] \in MongoOperators

Matches(doc, filter_) ==
  \A i \in DOMAIN filter_ :
     \A j \in DOMAIN filter_[i][2] :
        Holds(filter_[i][2][j][1], filter_[i][2][j][2], FieldOf(doc, filter_[i][1]))

\* coll.find(filter_): the matching documents in the order of the cursor
find(w, coll, filter_) ==
  InCursorOrder(w, SelectSeq(w.store[coll], LAMBDA d : Matches(d, filter_)))

\* py_.set_(filter_, [T, "$lte"], oid)
set_t_lte(filter_, oid) ==
  Put(filter_, "t",
      Put(IF "t" \in Keys(filter_) THEN Get(filter_, "t") ELSE <<>>, "$lte", {OidV(oid)}))

\* datetime.now(tz=timezone.utc): not before the time of any ObjectId generated
now(w) == TimeV(generation_time(w.nextOid))

\* as_of: the pair (docs_for, coll) as [oid, coll]; ok = FALSE is the TypeError
\* of None[E] when find_one finds no transaction
as_of(w, coll, t) ==
  IF t.k = "time"
  THEN LET hits == find(w, coll, << <<"a", Direct(OidV(OID_GENERATED_AT_TIME))>>,
                                    <<"v", << <<"$lte", {t}>> >> >> >>)
           first == CHOOSE i \in DOMAIN hits : \A j \in DOMAIN hits : hits[j].t <= hits[i].t
       IN  IF hits = <<>> THEN [ok |-> FALSE, oid |-> 0, coll |-> coll]
           ELSE [ok |-> TRUE, oid |-> hits[first].e, coll |-> coll]
  ELSE [ok |-> TRUE, oid |-> t.n, coll |-> coll]

\* docs_for of as_of: the cursor, and the filter object as the call leaves it
docs_for(w, coll_hof, filter_) ==
  LET f == set_t_lte(filter_, coll_hof.oid)
  IN  [filter_ |-> f, cursor |-> find(w, coll_hof.coll, f)]

(* -------------------------------- query -------------------------------- *)
\* isinstance(spec, str) and spec.startswith("?")
IsVar(x) == IsStr(x) /\ Len(x.s) > 0 /\ x.s[1] = "?"

\* zip(terms, (E, A, V)): the positions of the terms that are paired with a field
Zipped(terms) == 1..(IF Len(terms) < 3 THEN Len(terms) ELSE 3)

\* compile_graph_pattern: the set of outcomes [w, ok, conditions]
compile_graph_pattern(w, graph_pattern, use_prefixes, coll_hof) ==
  LET expanded_resource ==
        { <<graph_pattern[k][i], prefix_expand(graph_pattern[k], use_prefixes)[i]>> :
            <<k, i>> \in {x \in (DOMAIN graph_pattern) \X (1..3) :
               /\ x[2] \in Zipped(graph_pattern[x[1]])
               /\ LET spec == prefix_expand(graph_pattern[x[1]], use_prefixes)[x[2]]
                  IN  IsStr(spec) /\ ~IsVar(spec)} }
      Expanded(elt) == (CHOOSE x \in expanded_resource : x[1] = elt)[2]
  IN  { [w |-> r.w, ok |-> r.ok,
         conditions |->
           IF r.ok
           THEN [k \in DOMAIN graph_pattern |->
                   [i \in DOMAIN graph_pattern[k] |->
                      LET elt == graph_pattern[k][i]
                      IN  IF IsStr(elt) /\ elt \in {x[1] : x \in expanded_resource}
                          THEN OidV(r.rmap[Expanded(elt).s])
                          ELSE elt]]
           ELSE <<>>]
        : r \in oids_for(w, {x[2].s : x \in expanded_resource}, coll_hof.coll) }

\* cursor_for: [ok, cursor]; ok = FALSE is the ValueError
cursor_for(w, condition, coll_hof) ==
  LET fields == <<"e", "a", "v">>
      Set(filter_, i) ==
        LET spec == condition[i]
        IN  IF i \notin Zipped(condition) THEN filter_
            ELSE IF IsDict(spec) THEN Put(filter_, fields[i], spec.p)
            ELSE IF IsOid(spec) THEN Put(filter_, fields[i], Direct(spec))
            ELSE IF IsStr(spec) /\ ~IsVar(spec) THEN Put(filter_, fields[i], Direct(spec))
            ELSE filter_
      filter_ == Set(Set(Set(<<>>, 1), 2), 3)
  IN  IF \E i \in Zipped(condition) :
            ~IsDict(condition[i]) /\ ~IsOid(condition[i]) /\ ~IsStr(condition[i])
      THEN [ok |-> FALSE, cursor |-> <<>>]
      ELSE IF ~Supported(filter_) THEN [ok |-> FALSE, cursor |-> <<>>]
      ELSE [ok |-> TRUE, cursor |-> docs_for(w, coll_hof, filter_).cursor]

\* get_doc_binder(condition)(doc): [some, b]; some = FALSE is None
get_doc_binder(condition, doc) ==
  LET doc_vals == <<FieldOf(doc, "e"), FieldOf(doc, "a"), FieldOf(doc, "v")>>
      Spec_(i) == IF IsDict(condition[i]) THEN StrV(condition[i].s) ELSE condition[i]
      Bind(binding, i) ==
        IF i \in Zipped(condition) /\ IsVar(Spec_(i))
        THEN Put(binding, Spec_(i).s, doc_vals[i]) ELSE binding
      binding == Bind(Bind(Bind(<<>>, 1), 2), 3)
  IN  IF \E i \in Zipped(condition) : ~IsVar(Spec_(i)) /\ Spec_(i) # doc_vals[i]
      THEN [some |-> FALSE, b |-> <<>>]
      ELSE [some |-> binding # <<>>, b |-> binding]

\* a variant that keeps every pair of the product; SelfTestC19 fails with it
RECURSIVE MergeFrom_every_pair(_, _, _)
MergeFrom_every_pair(bindings1, bindings2, k) ==
  IF k > Len(bindings1) * Len(bindings2) THEN <<>>
  ELSE <<Update(bindings1[((k - 1) \div Len(bindings2)) + 1],
                bindings2[((k - 1) % Len(bindings2)) + 1])>>
       \o MergeFrom_every_pair(bindings1, bindings2, k + 1)

\* a variant that compares only the first key of b2; NaturalJoinC22 fails with it
RECURSIVE MergeFrom_first_key(_, _, _)
MergeFrom_first_key(bindings1, bindings2, k) ==
  IF k > Len(bindings1) * Len(bindings2) THEN <<>>
  ELSE LET b1 == bindings1[((k - 1) \div Len(bindings2)) + 1]
           b2 == bindings2[((k - 1) % Len(bindings2)) + 1]
           no_good == \E key \in {b2[1][1]} : key \in Keys(b1) /\ Get(b2, key) # Get(b1, key)
       IN  (IF no_good THEN <<>> ELSE <<Update(b1, b2)>>)
           \o MergeFrom_first_key(bindings1, bindings2, k + 1)

\* merge_binding_collections, from pair number k of itertools.product on
RECURSIVE MergeFrom(_, _, _)
MergeFrom(bindings1, bindings2, k) ==
  IF k > Len(bindings1) * Len(bindings2) THEN <<>>
  ELSE LET b1 == bindings1[((k - 1) \div Len(bindings2)) + 1]
           b2 == bindings2[((k - 1) % Len(bindings2)) + 1]
           no_good == \E key \in Keys(b2) : key \in Keys(b1) /\ Get(b2, key) # Get(b1, key)
       IN  (IF no_good THEN <<>> ELSE <<Update(b1, b2)>>)
           \o MergeFrom(bindings1, bindings2, k + 1)

merge_binding_collections(bindings1, bindings2) == MergeFrom(bindings1, bindings2, 1)

\* functools.reduce(merge_binding_collections, condition_bindings), from item i on
RECURSIVE Reduce(_, _, _)
Reduce(acc, condition_bindings, i) ==
  IF i > Len(condition_bindings) THEN acc
  ELSE Reduce(merge_binding_collections(acc, condition_bindings[i]), condition_bindings, i + 1)

\* get_valid_bindings: [ok, bindings]
get_valid_bindings(w, conditions, coll_hof) ==
  LET Bindings(c) ==
        LET cursor == cursor_for(w, c, coll_hof).cursor
            bound == SelectSeq(cursor, LAMBDA doc : get_doc_binder(c, doc).some)
        IN  [i \in DOMAIN bound |-> get_doc_binder(c, bound[i]).b]
      condition_bindings == [k \in DOMAIN conditions |-> Bindings(conditions[k])]
  IN  IF conditions = <<>> \/ \E k \in DOMAIN conditions : ~cursor_for(w, conditions[k], coll_hof).ok
      THEN [ok |-> FALSE, bindings |-> <<>>]
      ELSE [ok |-> TRUE, bindings |-> Reduce(condition_bindings[1], condition_bindings, 2)]

\* str of an encoded identifier
IdText(enc) == <<ToString(enc.num), ToString(enc.chk)>>

\* a variant in which the first document of an ObjectId wins, whatever its
\* attribute; CursorOrderC15 fails with it
RECURSIVE RefsFrom_first_wins(_, _, _)
RefsFrom_first_wins(out, docs, i) ==
  IF i > Len(docs) THEN out
  ELSE LET doc == docs[i]
       IN  RefsFrom_first_wins(
             IF doc.e \in Keys(out) THEN out
             ELSE IF doc.a = OID_VAEM_ID
             THEN Put(out, doc.e, StrV(<<"_:">> \o IdText(encode_id(doc.v.n))))
             ELSE Put(out, doc.e, doc.v),
             docs, i + 1)

\* the loop of refs_for over the documents, from document i on
RECURSIVE RefsFrom(_, _, _)
RefsFrom(out, docs, i) ==
  IF i > Len(docs) THEN out
  ELSE LET doc == docs[i]
       IN  RefsFrom(IF doc.a = OID_VAEM_ID /\ doc.e \notin Keys(out)
                    THEN Put(out, doc.e, StrV(<<"_:">> \o IdText(encode_id(doc.v.n))))
                    ELSE IF doc.a = OID_URIREF THEN Put(out, doc.e, doc.v)
                    ELSE out,
                    docs, i + 1)

\* refs_for: [ok, out]; ok = FALSE is the RuntimeError
refs_for(w, oids, coll_hof) ==
  LET docs == docs_for(w, coll_hof,
                << <<"e", << <<"$in", {OidV(oids[i]) : i \in DOMAIN oids}>> >> >>,
                   <<"a", << <<"$in", {OidV(OID_URIREF), OidV(OID_VAEM_ID)}>> >> >> >>).cursor
      out == RefsFrom(<<>>, docs, 1)
  IN  IF Len(oids) # Len(out) THEN [ok |-> FALSE, out |-> <<>>]
      ELSE [ok |-> TRUE, out |-> out]

\* oid_places of sub_refs, from binding i on: the ObjectIds in order
RECURSIVE OidPlaces(_, _)
OidPlaces(selected, i) ==
  IF i > Len(selected) THEN <<>>
  ELSE LET places == SelectSeq(selected[i], LAMBDA kv : IsOid(kv[2]))
       IN  [j \in DOMAIN places |-> places[j][2].n] \o OidPlaces(selected, i + 1)

\* sub_refs: [ok, out]
sub_refs(w, selected, coll_hof) ==
  LET refs == refs_for(w, OidPlaces(selected, 1), coll_hof)
  IN  IF ~refs.ok THEN [ok |-> FALSE, out |-> <<>>]
      ELSE [ok |-> TRUE,
            out |-> [i \in DOMAIN selected |->
                       [j \in DOMAIN selected[i] |->
                          LET kv == selected[i][j]
                          IN  IF IsOid(kv[2]) THEN <<kv[1], Get(refs.out, kv[2].n)>>
                              ELSE kv]]]

\* v.startswith(expanded)
StartsWith(s, expanded) ==
  Len(expanded) <= Len(s) /\ SubSeq(s, 1, Len(expanded)) = expanded

\* prefix_compact
prefix_compact(bindings, use_prefixes) ==
  LET prefix == Update(PREFIXES, use_prefixes)
      Compact(v) ==
        IF IsStr(v) /\ MatchesURI(v.s) /\ \E i \in DOMAIN prefix : StartsWith(v.s, prefix[i][2])
        THEN LET i == CHOOSE i \in DOMAIN prefix :
                        /\ StartsWith(v.s, prefix[i][2])
                        /\ \A j \in 1..(i - 1) : ~StartsWith(v.s, prefix[j][2])
                 local_name == SubSeq(v.s, Len(prefix[i][2]) + 1, Len(v.s))
             IN  StrV(<<prefix[i][1], ":">> \o local_name)
        ELSE v
  IN  [b \in DOMAIN bindings |->
         [j \in DOMAIN bindings[b] |-> <<bindings[b][j][1], Compact(bindings[b][j][2])>>]]

\* py_.pick(v, *select)
pick(v, select) ==
  LET present == SelectSeq(select, LAMBDA key : key \in Keys(v))
  IN  [i \in DOMAIN present |-> <<present[i], Get(v, present[i])>>]

\* coll_hof=None
NoHof == [ok |-> TRUE, oid |-> 0, coll |-> "None"]

\* the call of refs_for that a query made: its argument and whether it returned
NoRefs == [called |-> FALSE, oids |-> <<>>, ok |-> FALSE]

\* query: the set of outcomes [w, ok, out, coll_hof, refs]; ok = FALSE is a raised
\* error, coll_hof the higher-order filter the query used, refs its call of refs_for
query(w, query_spec, coll_hof_arg) ==
  LET coll_hof == IF coll_hof_arg = NoHof THEN as_of(w, "main", now(w)) ELSE coll_hof_arg
      Raise(w1, refs) ==
        [w |-> w1, ok |-> FALSE, out |-> <<>>, coll_hof |-> coll_hof, refs |-> refs]
  IN  IF ~coll_hof.ok THEN {Raise(w, NoRefs)}
      ELSE { IF ~c.ok THEN Raise(c.w, NoRefs)
             ELSE LET valid_bindings == get_valid_bindings(c.w, c.conditions, coll_hof)
                      selected_bindings ==
                        IF query_spec.has_select
                        THEN [i \in DOMAIN valid_bindings.bindings |->
                                pick(valid_bindings.bindings[i], query_spec.select)]
                        ELSE valid_bindings.bindings
                      subbed == sub_refs(c.w, selected_bindings, coll_hof)
                      refs == [called |-> TRUE, oids |-> OidPlaces(selected_bindings, 1),
                               ok |-> subbed.ok]
                  IN  IF ~valid_bindings.ok THEN Raise(c.w, NoRefs)
                      ELSE IF ~subbed.ok THEN Raise(c.w, refs)
                      ELSE [w |-> c.w, ok |-> TRUE,
                            out |-> prefix_compact(subbed.out, query_spec.prefixes),
                            coll_hof |-> coll_hof, refs |-> refs]
             : c \in compile_graph_pattern(w, query_spec.where, query_spec.prefixes,
                                           coll_hof) }

(* ------------------------------ the calls ------------------------------ *)
\* the statements callers assert and retract, written with compact URIs
Lit == StrV(<<"L">>)
StmtLiteralValued == << StrV(<<"myns", ":", "a">>), StrV(<<"qudt", ":", "value">>), Lit >>
StmtStructured == << StrV(<<"vaem", ":", "id">>), StrV(<<"myns", ":", "p">>), Lit >>
Statements == {StmtLiteralValued, StmtStructured}

\* assert_(statement) or retract(statement), as an item of the list given to transact
Op(statement, is_assert) == [statement |-> statement, is_assert |-> is_assert]

\* the lists callers give to transact: one statement asserted or retracted, or
\* several structured-literal statements asserted together
Batches ==
  {<<Op(s, b)>> : s \in Statements, b \in BOOLEAN}
  \cup {[i \in 1..n |-> Op(StmtStructured, TRUE)] : n \in 2..MaxBatch}

\* [assert_(s, use_prefixes=additional_prefixes, coll=coll) for s in ...], flattened,
\* from item i on: the set of outcomes [w, ok, ops]
RECURSIVE CompileBatch(_, _, _, _, _)
CompileBatch(w, batch, coll, i, acc) ==
  IF i > Len(batch) THEN {[w |-> w, ok |-> TRUE, ops |-> acc]}
  ELSE UNION { IF r.ok
               THEN CompileBatch(r.w, batch, coll, i + 1, acc \o r.ops)
               ELSE {[w |-> r.w, ok |-> FALSE, ops |-> <<>>]}
               : r \in assert_or_retract(w, batch[i].statement, batch[i].is_assert,
                                         additional_prefixes, coll) }

\* the main collection holds the four datoms that create_collection seeds
Bootstrapped ==
  \A i \in DOMAIN CORE_ATTRIBUTES :
     \E j \in DOMAIN store["main"] :
        LET d == store["main"][j]
        IN  d.a = OID_URIREF /\ d.e = i - 1 /\ d.v = CORE_ATTRIBUTES[i] /\ d.o

\* a run is a sequence of writing calls that ends with the read whose result
\* the caller observes
Running ==
  last.op \notin {"query", "docs_for", "assert_", "retract", "_compile_to_raw",
                  "get_valid_bindings"}

SetWorld(w) ==
  /\ store' = w.store
  /\ exists' = w.exists
  /\ cache' = w.cache
  /\ nextOid' = w.nextOid
  /\ faults' = w.faults
  /\ proc' = proc
  /\ service' = service

\* a call that raised before it generated an ObjectId has changed nothing; a
\* call that wrote is counted and recorded
Called(w, call) ==
  /\ calls' = IF w.nextOid = nextOid THEN calls ELSE calls + 1
  /\ last' = IF w.nextOid = nextOid THEN last ELSE call

\* create_collection(name, drop_guard)
CreateCollection(name, drop_guard) ==
  /\ Running
  /\ calls < MaxCalls
  /\ \E r \in create_collection(World, name, drop_guard) :
        /\ SetWorld(r.w)
        /\ Called(r.w, [op |-> "create_collection", coll |-> "main", ok |-> r.ok,
                        docs |-> r.docs, name |-> name])

\* transact([assert_(s, coll=coll) or retract(s, coll=coll) for s in ...], coll=coll)
Transact(batch, coll) ==
  /\ Running
  /\ calls < MaxCalls
  /\ Bootstrapped
  /\ \E c \in CompileBatch(World, batch, coll, 1, <<>>) :
        \E r \in (IF c.ok THEN transact(c.w, c.ops, coll)
                  ELSE {[w |-> c.w, ok |-> FALSE, docs |-> <<>>]}) :
           /\ SetWorld(r.w)
           /\ Called(r.w, [op |-> "transact", coll |-> coll, ok |-> r.ok, docs |-> r.docs,
                           batch |-> batch])

\* the statements callers compile without giving the result to transact: those
\* of Statements, one whose value is a URI, and ones with a literal as entity
\* or as attribute
StmtUriValued ==
  << StrV(<<"vaem", ":", "id">>), StrV(<<"myns", ":", "p">>), StrV(<<"myns", ":", "a">>) >>
StmtLiteralEntity == << Lit, StrV(<<"myns", ":", "p">>), StrV(<<"myns", ":", "a">>) >>
StmtLiteralAttribute == << StrV(<<"myns", ":", "a">>), Lit, StrV(<<"myns", ":", "p">>) >>
CompileStatements ==
  Statements \cup {StmtUriValued, StmtLiteralEntity, StmtLiteralAttribute}

\* the functions that compile one statement
Compilers == {"assert_", "retract", "_compile_to_raw"}

\* the outcomes [w, ok, ops] of fn(statement, use_prefixes=additional_prefixes,
\* coll=coll); _compile_to_raw takes the statement with its URIs expanded and
\* returns one raw statement, given here as an operation with o = TRUE
compile_call(w, fn, statement, coll) ==
  IF fn = "_compile_to_raw"
  THEN { [w |-> r.w, ok |-> r.ok,
          ops |-> IF r.ok THEN <<RawOp(r.raw[1], r.raw[2], r.raw[3], TRUE)>> ELSE <<>>]
         : r \in compile_to_raw(w, prefix_expand(statement, additional_prefixes), coll) }
  ELSE assert_or_retract(w, statement, fn = "assert_", additional_prefixes, coll)

\* assert_(statement), retract(statement) or _compile_to_raw(statement) on its own
Compile(fn, statement, coll) ==
  /\ Running
  /\ Bootstrapped
  /\ \E r \in compile_call(World, fn, statement, coll) :
        /\ SetWorld(r.w)
        /\ calls' = calls
        /\ last' = [op |-> fn, statement |-> statement, coll |-> coll, ok |-> r.ok,
                    ops |-> r.ops]

\* a statement that gives the resource myns:a a shareable ID of the caller's
StmtOwnId ==
  << StrV(<<"myns", ":", "a">>), StrV(<<"vaem", ":", "id">>), IntV(MaxEid) >>

\* the transactions of a collection
TxIds(coll) == {store[coll][i].t : i \in DOMAIN store[coll]}

Var(name) == <<"?", name>>

\* the queries callers run
QueryLiteral ==
  [where |-> << << StrV(<<"myns", ":", "a">>), StrV(<<"qudt", ":", "value">>),
                   StrV(Var("l")) >> >>,
   has_select |-> FALSE, select |-> <<>>, prefixes |-> additional_prefixes]
QueryEntity ==
  [where |-> << << StrV(Var("e")), StrV(<<"qudt", ":", "value">>), StrV(Var("l")) >> >>,
   has_select |-> FALSE, select |-> <<>>, prefixes |-> additional_prefixes]
QueryStructured ==
  [where |-> << << StrV(<<"vaem", ":", "id">>), StrV(<<"myns", ":", "p">>), StrV(Var("s")) >>,
                << StrV(Var("s")), StrV(<<"qudt", ":", "value">>), StrV(Var("l")) >> >>,
   has_select |-> TRUE, select |-> <<Var("l")>>, prefixes |-> additional_prefixes]
Queries == {QueryLiteral, QueryEntity, QueryStructured}

\* the higher-order filters callers pass to query: none, or as_of(coll, t) for
\* a transaction t of the collection
Hofs == {NoHof} \cup UNION {{as_of(World, coll, OidV(t)) : t \in TxIds(coll)} : coll \in Colls}

\* query(query_spec, coll_hof)
Query(query_spec, coll_hof) ==
  /\ Running
  /\ Bootstrapped
  /\ \E r \in query(World, query_spec, coll_hof) :
        /\ SetWorld(r.w)
        /\ calls' = calls
        /\ last' = [op |-> "query", query_spec |-> query_spec, coll_hof |-> r.coll_hof,
                    ok |-> r.ok, out |-> r.out, refs |-> r.refs]

\* the filters callers pass to a higher-order filter
CallerFilters(coll) ==
  { <<>>,
    << <<"a", Direct(OidV(OID_URIREF))>> >> }
  \cup { << <<"t", << <<"$lte", {OidV(t)}>> >> >> >> :
           t \in {x \in TxIds(coll) : \A y \in TxIds(coll) : x <= y} }

\* the instants and transactions callers pass to as_of
Cutoffs(coll) == {now(World)} \cup {OidV(t) : t \in TxIds(coll)}

\* as_of(coll, t)[0](filter_)
DocsFor(filter_, coll, t) ==
  /\ Running
  /\ exists[coll]
  /\ LET coll_hof == as_of(World, coll, t)
         r == docs_for(World, coll_hof, filter_)
     IN  last' = IF coll_hof.ok
                 THEN [op |-> "docs_for", coll |-> coll, t |-> t, oid |-> coll_hof.oid,
                       ok |-> TRUE, filter_ |-> filter_, filter_after |-> r.filter_,
                       cursor |-> r.cursor]
                 ELSE [op |-> "docs_for", coll |-> coll, t |-> t, oid |-> 0,
                       ok |-> FALSE, filter_ |-> filter_, filter_after |-> filter_,
                       cursor |-> <<>>]
  /\ UNCHANGED <<store, exists, cache, nextOid, faults, calls, proc, service>>

Next ==
  \/ \E name \in Colls, drop_guard \in BOOLEAN : CreateCollection(name, drop_guard)
  \/ \E batch \in Batches, coll \in Colls : Transact(batch, coll)
  \/ \E fn \in Compilers, statement \in CompileStatements, coll \in Colls :
        Compile(fn, statement, coll)
  \/ \E q \in Queries, coll_hof \in Hofs : Query(q, coll_hof)
  \/ \E coll \in Colls : \E filter_ \in CallerFilters(coll), t \in Cutoffs(coll) :
        DocsFor(filter_, coll, t)

\* the runs in which the database acknowledges every write
Spec == Init /\ [][Next]_vars

\* the runs of the writing calls in which writes may fail
InitFaulty ==
  /\ store = [c \in Colls |-> <<>>]
  /\ exists = [c \in Colls |-> FALSE]
  /\ cache = EmptyCache
  /\ nextOid = FirstOid
  /\ faults \in 1..MaxFaults
  /\ calls = 0
  /\ last = NoCall
  /\ proc = [p \in Workers |-> Idle]
  /\ service = NoService

NextFaulty ==
  \/ \E name \in Colls, drop_guard \in BOOLEAN : CreateCollection(name, drop_guard)
  \/ \E batch \in Batches, coll \in Colls : Transact(batch, coll)

SpecFaulty == InitFaulty /\ [][NextFaulty]_vars

(* ------------------------------ self-test ------------------------------ *)
\* datetime(2020, 11, 1), and the bounds datetime(2020, 10, 31) and
\* datetime(2020, 11, 2) of the query, as instants after those of the ObjectIds
DateModified == TimeV(MaxOidSelfTest + 2)
DateAfter == TimeV(MaxOidSelfTest + 1)
DateBefore == TimeV(MaxOidSelfTest + 3)

\* the lists of distinct keys that key_time_statements may be built from
KeyLists ==
  {keys \in UNION {[1..n -> 1..MaxKeys] : n \in 1..MaxKeys} :
     \A i, j \in DOMAIN keys : keys[i] = keys[j] => i = j}

\* key_time_statements, for a list of keys
key_time_statements(keys) ==
  [i \in DOMAIN keys |-> << StrV(<<"myns", ":", "key", ToString(keys[i])>>),
                           StrV(<<"s", ":", "dateModified">>), DateModified >>]

\* query_spec of the self-test
self_test_query ==
  [where |-> << << StrV(Var("key")), StrV(<<"s", ":", "dateModified">>), StrV(Var("sv")) >>,
                << StrV(Var("sv")), StrV(<<"qudt", ":", "value">>),
                   DictV(Var("dt"), << <<"$gt", {DateAfter}>>, <<"$lt", {DateBefore}>> >>) >> >>,
   has_select |-> TRUE, select |-> <<Var("key"), Var("dt")>>,
   prefixes |-> additional_prefixes]

\* the world of a run of the self-test
SelfTestWorld == [World EXCEPT !.limit = MaxOidSelfTest]

\* mycoll = create_collection(drop_guard=False)
SelfTestCreate ==
  /\ Running
  /\ calls < MaxCalls
  /\ \E r \in create_collection(SelfTestWorld, "main", FALSE) :
        /\ SetWorld(r.w)
        /\ Called(r.w, [op |-> "create_collection", coll |-> "main", ok |-> r.ok,
                        docs |-> r.docs, name |-> "main"])

\* transact([assert_(s, use_prefixes=additional_prefixes) for s in key_time_statements])
SelfTestTransact(keys) ==
  /\ Running
  /\ calls < MaxCalls
  /\ Bootstrapped
  /\ LET batch == [i \in DOMAIN keys |-> Op(key_time_statements(keys)[i], TRUE)]
     IN  \E c \in CompileBatch(SelfTestWorld, batch, "None", 1, <<>>) :
            \E r \in (IF c.ok THEN transact(c.w, c.ops, "None")
                      ELSE {[w |-> c.w, ok |-> FALSE, docs |-> <<>>]}) :
               /\ SetWorld(r.w)
               /\ Called(r.w, [op |-> "transact", coll |-> "main", ok |-> r.ok,
                               docs |-> r.docs, batch |-> batch])

\* query(query_spec, coll_hof=as_of(mycoll, datetime.now(tz=timezone.utc)))
SelfTestQuery ==
  /\ Running
  /\ Bootstrapped
  /\ \E r \in query(SelfTestWorld, self_test_query, as_of(World, "main", now(World))) :
        /\ SetWorld(r.w)
        /\ calls' = calls
        /\ last' = [op |-> "query", query_spec |-> self_test_query, coll_hof |-> r.coll_hof,
                    ok |-> r.ok, out |-> r.out, refs |-> r.refs]

NextSelfTest ==
  \/ SelfTestCreate
  \/ \E keys \in KeyLists : SelfTestTransact(keys)
  \/ SelfTestQuery

SpecSelfTest == Init /\ [][NextSelfTest]_vars

(* --------------------------- malformed queries ------------------------ *)
\* where-patterns with a clause of two terms, with a clause of four terms, with
\* an operator that is not one of $eq, $ne, $gt, $gte, $lt, $lte, $in, and with
\* a name that is no operator of MongoDB
QueryTwoTerms ==
  [where |-> << << StrV(Var("e")), StrV(<<"qudt", ":", "value">>) >> >>,
   has_select |-> FALSE, select |-> <<>>, prefixes |-> additional_prefixes]
QueryFourTerms ==
  [where |-> << << StrV(Var("e")), StrV(<<"qudt", ":", "value">>), StrV(Var("l")),
                   StrV(Var("x")) >> >>,
   has_select |-> FALSE, select |-> <<>>, prefixes |-> additional_prefixes]
QueryNin ==
  [where |-> << << StrV(<<"myns", ":", "a">>), StrV(<<"qudt", ":", "value">>),
                   DictV(Var("l"), << <<"$nin", {IntV(0)}>> >>) >> >>,
   has_select |-> FALSE, select |-> <<>>, prefixes |-> additional_prefixes]
QueryNoOperator ==
  [where |-> << << StrV(<<"myns", ":", "a">>), StrV(<<"qudt", ":", "value">>),
                   DictV(Var("l"), << <<"$near_to", {IntV(0)}>> >>) >> >>,
   has_select |-> FALSE, select |-> <<>>, prefixes |-> additional_prefixes]
MalformedQueries == {QueryTwoTerms, QueryFourTerms, QueryNin, QueryNoOperator}

NextMalformed ==
  \/ \E name \in Colls, drop_guard \in BOOLEAN : CreateCollection(name, drop_guard)
  \/ \E coll \in Colls, is_assert \in BOOLEAN :
        Transact(<<Op(StmtLiteralValued, is_assert)>>, coll)
  \/ \E q \in MalformedQueries, coll_hof \in Hofs : Query(q, coll_hof)

SpecMalformed == Init /\ [][NextMalformed]_vars

(* ----------------------------- cursor order --------------------------- *)
\* the lists given to transact in the runs that compare cursor orders
OrderBatches == {<<Op(StmtLiteralValued, TRUE)>>, <<Op(StmtOwnId, TRUE)>>}

\* the same query on the same store and cache, once with every cursor in
\* insertion order and once with every cursor in reverse order
QueryBothOrders(query_spec, coll_hof) ==
  /\ Running
  /\ Bootstrapped
  /\ \E results \in {[reverse \in BOOLEAN |->
                        query([World EXCEPT !.reverse = reverse], query_spec, coll_hof)]} :
     \E r \in results[FALSE], x \in results[TRUE] :
        /\ SetWorld(r.w)
        /\ calls' = calls
        /\ last' = [op |-> "query", query_spec |-> query_spec, coll_hof |-> r.coll_hof,
                    ok |-> r.ok, out |-> r.out, refs |-> r.refs,
                    reversed |-> [ok |-> x.ok, out |-> x.out]]

NextOrder ==
  \/ \E name \in Colls, drop_guard \in BOOLEAN : CreateCollection(name, drop_guard)
  \/ \E batch \in OrderBatches, coll \in Colls : Transact(batch, coll)
  \/ \E q \in {QueryEntity, QueryLiteral}, coll_hof \in Hofs : QueryBothOrders(q, coll_hof)

SpecOrder == Init /\ [][NextOrder]_vars

(* ------------------------- concurrent resolution ----------------------- *)
\* the URI the threads resolve
Unseen == prefix_expand(<<StrV(<<"myns", ":", "a">>)>>, additional_prefixes)[1].s

\* _oids_for([Unseen], coll) in thread p, up to the lookup in the database:
\* the documents of the cache
OidsForStart(p, coll) ==
  /\ proc[p].pc = "idle"
  /\ LET hit == {Unseen} \cap DOMAIN cache
         docs == IF hit = {} THEN <<>> ELSE <<[e |-> cache[Unseen], v |-> Unseen]>>
         missing == {Unseen} \ hit
     IN  proc' = [proc EXCEPT ![p] = [@ EXCEPT !.pc = IF missing = {} THEN "update" ELSE "find",
                                                !.coll = coll,
                                                !.docs = docs,
                                                !.missing = missing]]
  /\ UNCHANGED <<store, exists, cache, nextOid, faults, calls, last, service>>

\* docs.extend(db.main.find(...)) and the second computation of missing
OidsForFind(p) ==
  /\ proc[p].pc = "find"
  /\ LET docs == proc[p].docs \o FindUriRefs(World, proc[p].missing)
         missing == {Unseen} \ {docs[i].v : i \in DOMAIN docs}
     IN  proc' = [proc EXCEPT ![p] = [@ EXCEPT !.pc = IF missing = {} THEN "update" ELSE "mint",
                                                !.docs = docs,
                                                !.missing = missing]]
  /\ UNCHANGED <<store, exists, cache, nextOid, faults, calls, last, service>>

\* new_oids = {r: ObjectId() for r in missing}
OidsForMint(p) ==
  /\ proc[p].pc = "mint"
  /\ CanMint(World, 1)
  /\ nextOid' = nextOid + 1
  /\ proc' = [proc EXCEPT ![p] = [@ EXCEPT !.pc = "write",
                                           !.new = <<[e |-> nextOid, v |-> Unseen]>>]]
  /\ UNCHANGED <<store, exists, cache, faults, calls, last, service>>

\* _assert_raw of the new OID_URIREF datoms, and docs.extend
OidsForWrite(p) ==
  /\ proc[p].pc = "write"
  /\ \E r \in assert_raw(World, [i \in DOMAIN proc[p].new |->
                                  <<proc[p].new[i].e, OID_URIREF, StrV(proc[p].new[i].v)>>],
                         proc[p].coll) :
        /\ store' = r.w.store
        /\ exists' = r.w.exists
        /\ nextOid' = r.w.nextOid
        /\ faults' = r.w.faults
        /\ proc' = [proc EXCEPT ![p] = [@ EXCEPT !.pc = IF r.ok THEN "update" ELSE "raised",
                                                 !.docs = @ \o proc[p].new]]
  /\ UNCHANGED <<cache, calls, last, service>>

\* the update of _oids_cache and the return
OidsForReturn(p) ==
  /\ proc[p].pc = "update"
  /\ cache' = DictOf(proc[p].docs) @@ cache
  /\ proc' = [proc EXCEPT ![p] = [@ EXCEPT !.pc = "done", !.result = DictOf(proc[p].docs)]]
  /\ UNCHANGED <<store, exists, nextOid, faults, calls, last, service>>

\* threads that resolve the same URI, in a database set up before they start
NextConcurrent ==
  \/ /\ \A p \in Workers : proc[p].pc = "idle"
     /\ \E name \in Colls, drop_guard \in BOOLEAN : CreateCollection(name, drop_guard)
  \/ \E p \in Workers, coll \in Colls : OidsForStart(p, coll)
  \/ \E p \in Workers : OidsForFind(p)
  \/ \E p \in Workers : OidsForMint(p)
  \/ \E p \in Workers : OidsForWrite(p)
  \/ \E p \in Workers : OidsForReturn(p)

SpecConcurrent == Init /\ [][NextConcurrent]_vars

(* -------------------------- concurrent writers ------------------------- *)
\* the raw statement operations writer p transacts
WriterOps(p) == <<RawOp(OID_URIREF, OID_QUDT_VALUE, IntV(p), TRUE)>>

\* _transact_raw in thread p, up to the call of insert_many: t = ObjectId(),
\* the identifier of the transaction, and the documents
TransactStart(p, coll) ==
  /\ proc[p].pc = "idle"
  /\ exists[coll]
  /\ CanMint(World, 1)
  /\ nextOid' = nextOid + 1
  /\ \E t_eid \in generate_id_unique(World, coll) :
        proc' = [proc EXCEPT ![p] = [@ EXCEPT !.pc = "insert",
                                              !.coll = coll,
                                              !.docs = TxDocs(WriterOps(p), nextOid,
                                                              decode_id(t_eid))]]
  /\ UNCHANGED <<store, exists, cache, faults, calls, last, service>>

\* coll.insert_many(docs), without a session: the server writes the documents
\* one after the other, and other clients read and write in between
TransactInsert(p) ==
  /\ proc[p].pc = "insert"
  /\ store' = [store EXCEPT ![proc[p].coll] = Append(@, Head(proc[p].docs))]
  /\ proc' = [proc EXCEPT ![p] = [@ EXCEPT !.pc = IF Len(proc[p].docs) = 1 THEN "done"
                                                  ELSE "insert",
                                           !.docs = Tail(proc[p].docs)]]
  /\ UNCHANGED <<exists, cache, nextOid, faults, calls, last, service>>

\* a reader takes as_of(coll, t), keeps the higher-order filter and reads
\* through it; committed tells whether the transaction of the cutoff had
\* written all its documents by then
AsOf(coll, t, filter_) ==
  /\ exists[coll]
  /\ LET coll_hof == as_of(World, coll, t)
     IN  last' = [op |-> "as_of", coll |-> coll, t |-> t, coll_hof |-> coll_hof,
                  filter_ |-> filter_,
                  committed |-> \E d \in Range(store[coll]) :
                                   d.e = coll_hof.oid /\ d.a = OID_VAEM_ID /\ d.t = d.e,
                  cursor |-> IF coll_hof.ok THEN docs_for(World, coll_hof, filter_).cursor
                             ELSE <<>>]
  /\ UNCHANGED <<store, exists, cache, nextOid, faults, calls, proc, service>>

\* writers that transact once each, concurrently with a reader, in a database
\* set up before they start
NextWriters ==
  \/ /\ \A p \in Workers : proc[p].pc = "idle"
     /\ last.op \in {"none", "create_collection"}
     /\ \E drop_guard \in BOOLEAN : CreateCollection("main", drop_guard)
  \/ \E p \in Workers, coll \in Colls : TransactStart(p, coll)
  \/ \E p \in Workers : TransactInsert(p)
  \/ \E coll \in Colls : \E t \in Cutoffs(coll), filter_ \in CallerFilters(coll) :
        AsOf(coll, t, filter_)

SpecWriters == Init /\ [][NextWriters]_vars

(* ------------------------------- patterns ------------------------------ *)
\* compiled clauses over the core attributes
ClauseId == << StrV(Var("x")), OidV(OID_VAEM_ID), StrV(Var("n")) >>
ClauseTime == << StrV(Var("x")), OidV(OID_GENERATED_AT_TIME), StrV(Var("time")) >>
ClauseSameTime == << StrV(Var("y")), OidV(OID_GENERATED_AT_TIME), StrV(Var("time")) >>
ClauseGround == << OidV(OID_URIREF), OidV(OID_URIREF), URI_RESOURCE >>

\* the lists of conditions given to get_valid_bindings
Patterns ==
  { <<ClauseId, ClauseTime>>,
    <<ClauseTime, ClauseSameTime>>,
    <<ClauseId, ClauseTime, ClauseSameTime>>,
    <<ClauseTime, ClauseGround>> }

\* the conditions in the order q
Permuted(conditions, q) == [k \in DOMAIN q |-> conditions[q[k]]]

\* get_valid_bindings(conditions, coll_hof), and what it gives for each clause
\* alone and for the clauses in every other order
GetValidBindings(conditions, coll_hof) ==
  /\ Running
  /\ Bootstrapped
  /\ coll_hof.ok
  /\ \E valid \in {[c \in {Permuted(conditions, q) : q \in Orders(DOMAIN conditions)}
                         \cup {<<conditions[k]>> : k \in DOMAIN conditions}
                       |-> get_valid_bindings(World, c, coll_hof)]} :
        last' = [op |-> "get_valid_bindings", conditions |-> conditions,
                 coll_hof |-> coll_hof,
                 ok |-> valid[conditions].ok,
                 bindings |-> valid[conditions].bindings,
                 condition_bindings |->
                   [k \in DOMAIN conditions |-> valid[<<conditions[k]>>].bindings],
                 cursors |->
                   [k \in DOMAIN conditions |-> cursor_for(World, conditions[k], coll_hof).cursor],
                 permuted |->
                   {valid[Permuted(conditions, q)].bindings : q \in Orders(DOMAIN conditions)}]
  /\ UNCHANGED <<store, exists, cache, nextOid, faults, calls, proc, service>>

NextPatterns ==
  \/ \E name \in Colls, drop_guard \in BOOLEAN : CreateCollection(name, drop_guard)
  \/ \E batch \in OrderBatches, coll \in Colls : Transact(batch, coll)
  \/ \E conditions \in Patterns, coll_hof \in Hofs \ {NoHof} :
        GetValidBindings(conditions, coll_hof)

SpecPatterns == Init /\ [][NextPatterns]_vars

(* ------------------------------ compaction ----------------------------- *)
\* prefixes a caller may pass: two whose expansions are nested, one whose
\* expansion is the beginning of a base expansion and one that extends a base
\* expansion
CallerPrefixes ==
  { <<"ex",  <<"http", ":", "//", "ex.org/">> >>,
    <<"exv", <<"http", ":", "//", "ex.org/", "vocab#">> >>,
    <<"q",   <<"http", ":", "//">> >>,
    <<"qv",  <<"http", ":", "//", "qudt.org/schema/qudt#", "value/">> >> }

\* the dicts a caller may pass as use_prefixes, in every insertion order
PrefixMaps == UNION {Orders(S) : S \in SUBSET CallerPrefixes}

\* the values of the bindings that are compacted
CompactedValues ==
  { StrV(<<"http", ":", "//", "ex.org/", "vocab#", "a">>),
    StrV(<<"http", ":", "//", "ex.org/", "b">>),
    StrV(<<"http", ":", "//", "qudt.org/schema/qudt#", "value/", "unit">>),
    Lit }

\* prefix_compact([{"?v": v}], use_prefixes), and what it gives for the same
\* entries of use_prefixes in every other order
PrefixCompact(v, use_prefixes) ==
  /\ last' = [op |-> "prefix_compact", v |-> v, use_prefixes |-> use_prefixes,
              out |-> prefix_compact(<< << <<Var("v"), v>> >> >>, use_prefixes)[1][1][2],
              reordered |-> {prefix_compact(<< << <<Var("v"), v>> >> >>, q)[1][1][2] :
                               q \in Orders(Range(use_prefixes))}]
  /\ UNCHANGED <<store, exists, cache, nextOid, faults, calls, proc, service>>

NextCompact == \E v \in CompactedValues, use_prefixes \in PrefixMaps : PrefixCompact(v, use_prefixes)

SpecCompact == Init /\ [][NextCompact]_vars

(* ------------------------------ harvester ------------------------------ *)
\* an event; raised tells that a raise action put it in the queue
Event(type, data, raised) == [type |-> type, data |-> data, raised |-> raised]

\* an option of a transition: "cond", "target" and "actions"
Option(has_cond, cond, target, actions) ==
  [has_cond |-> has_cond, cond |-> cond, target |-> target, actions |-> actions]

\* what a state configures for an event type: one option, or a list of options
One(option) == [is_list |-> FALSE, thing |-> <<option>>]
Many(options) == [is_list |-> TRUE, thing |-> options]

\* listify
listify(entry) == entry.thing

\* merge of toolz: the items of both dicts, those of the second one winning
merge(d1, d2) ==
  [k \in DOMAIN d1 \cup DOMAIN d2 |-> IF k \in DOMAIN d2 THEN d2[k] ELSE d1[k]]

\* the "states" part of the configurations: (state value, event type) -> entry
PathsStates ==
  [x \in { <<"s0", "SET">>, <<"s0", "GO">>, <<"s0", "PING">>,
           <<"s1", "GO">>, <<"s1", "PING">>,
           <<"s2", "GO">>, <<"s2", "PING">> } |->
     CASE x = <<"s0", "SET">> ->
            One(Option(FALSE, "", "s1", <<"set_x", "copy_x_to_y", "bump_x">>))
       [] x = <<"s0", "GO">> ->
            Many(<< Option(TRUE, "data_is_one", "s1", <<"set_x">>),
                    Option(TRUE, "x_is_zero", "s2", <<>>),
                    Option(FALSE, "", "s0", <<"copy_x_to_y">>) >>)
       [] x = <<"s0", "PING">> -> One(Option(FALSE, "", "s1", <<"raise_go">>))
       [] x = <<"s1", "GO">> ->
            Many(<< Option(TRUE, "data_is_one", "s2", <<"bump_x">>),
                    Option(TRUE, "x_is_zero", "s0", <<"set_x">>) >>)
       [] x = <<"s1", "PING">> -> One(Option(FALSE, "", "s2", <<"raise_this">>))
       [] x = <<"s2", "GO">> -> One(Option(FALSE, "", "s0", <<>>))
       [] x = <<"s2", "PING">> ->
            One(Option(FALSE, "", "s0", <<"raise_go", "bump_x", "raise_set">>))]

LoopingStates ==
  [x \in { <<"s0", "PING">>, <<"s1", "PING">>, <<"s0", "GO">>, <<"s1", "GO">> } |->
     CASE x = <<"s0", "PING">> -> One(Option(FALSE, "", "s1", <<"raise_this">>))
       [] x = <<"s1", "PING">> -> One(Option(FALSE, "", "s0", <<"raise_this">>))
       [] x = <<"s0", "GO">> -> One(Option(TRUE, "data_is_one", "s1", <<"set_x">>))
       [] x = <<"s1", "GO">> -> One(Option(FALSE, "", "s0", <<"bump_x">>))]

\* the machine configurations
Configs == {"paths", "looping"}
States(config) == IF config = "paths" THEN PathsStates ELSE LoopingStates

\* Machine.guard(name)(context, event), for the guards of the options
guard(name, context, event) ==
  CASE name = "data_is_one" -> event.data = 1
    [] name = "x_is_zero" -> context["x"] = 0

\* Machine.action(name)["type"], for the actions of the options
action_type(name) ==
  IF name \in {"raise_go", "raise_set", "raise_this"} THEN "raise" ELSE "assign"

\* Machine.action(name)["exec"](context, event): the update of an assign
\* action, the event of a raise action
exec(name, context, event) ==
  CASE name = "set_x" -> [k \in {"x"} |-> event.data]
    [] name = "copy_x_to_y" -> [k \in {"y"} |-> context["x"]]
    [] name = "bump_x" -> [k \in {"x"} |-> (context["x"] + 1) % (MaxData + 1)]
    [] name = "raise_go" -> Event("GO", 1, TRUE)
    [] name = "raise_set" -> Event("SET", 1, TRUE)
    [] name = "raise_this" -> [event EXCEPT !.raised = TRUE]

\* Machine.__init__: the state of a new machine
InitialState ==
  [value |-> "s0", context |-> [k \in {"x", "y", "z"} |-> 0], actions |-> <<>>]

\* a variant that takes the last option that qualifies; FirstOptionC28 fails with it
transition_last_option(config, state, event) ==
  IF <<state.value, event.type>> \notin DOMAIN States(config) THEN state
  ELSE LET options == listify(States(config)[<<state.value, event.type>>])
           qualifies(i) ==
             ~options[i].has_cond \/ guard(options[i].cond, state.context, event)
       IN  IF \A i \in DOMAIN options : ~qualifies(i) THEN state
           ELSE LET option == options[CHOOSE i \in DOMAIN options :
                                        qualifies(i) /\ \A j \in DOMAIN options :
                                                           qualifies(j) => j <= i]
                IN  [state EXCEPT !.value = option.target, !.actions = option.actions]

\* Machine.transition(state, event)
transition(config, state, event) ==
  IF <<state.value, event.type>> \notin DOMAIN States(config) THEN state
  ELSE LET options == listify(States(config)[<<state.value, event.type>>])
           qualifies(i) ==
             ~options[i].has_cond \/ guard(options[i].cond, state.context, event)
       IN  IF \A i \in DOMAIN options : ~qualifies(i) THEN state
           ELSE LET option == options[CHOOSE i \in DOMAIN options :
                                        qualifies(i) /\ \A j \in 1..(i - 1) : ~qualifies(j)]
                IN  [state EXCEPT !.value = option.target, !.actions = option.actions]

\* a variant in which an assign action reads the context that the earlier
\* actions of the transition have updated; AssignFromOldC29 fails with it
RECURSIVE run_actions_reading_updates(_, _, _, _, _)
run_actions_reading_updates(names, i, context, state, event) ==
  IF i > Len(names) THEN [context |-> context, raised |-> <<>>]
  ELSE IF action_type(names[i]) = "assign"
  THEN run_actions_reading_updates(names, i + 1,
                                   merge(context, exec(names[i], context, event)),
                                   state, event)
  ELSE LET rest == run_actions_reading_updates(names, i + 1, context, state, event)
       IN  [rest EXCEPT !.raised = <<exec(names[i], context, event)>> \o @]

\* the loop of process_events over the actions of next_state, from action i on:
\* the context of next_state, and the raised events in the order of the actions;
\* state is self.machine.state
RECURSIVE run_actions(_, _, _, _, _)
run_actions(names, i, context, state, event) ==
  IF i > Len(names) THEN [context |-> context, raised |-> <<>>]
  ELSE IF action_type(names[i]) = "assign"
  THEN run_actions(names, i + 1,
                   merge(context, exec(names[i], state.context, event)), state, event)
  ELSE LET rest == run_actions(names, i + 1, context, state, event)
       IN  [rest EXCEPT !.raised = <<exec(names[i], state.context, event)>> \o @]

\* a variant that appends the raised events at the back of the queue;
\* RaisedFirstC26 fails with it
appendleft_all_at_back(events, raised) == events \o raised

\* self.events.appendleft(event_to_raise), for the raised events in turn
appendleft_all(events, raised) == Reverse(raised) \o events

\* Service(machine), for a new machine of a configuration
NewService(config) ==
  [config |-> config, active |-> FALSE, events |-> <<>>, state |-> InitialState,
   pc |-> "idle", caller |-> "none", entry |-> <<>>, log |-> <<>>, sends |-> 0]

\* the events callers send
SentEvents ==
  { Event("SET", 1, FALSE), Event("SET", MaxData, FALSE), Event("GO", 0, FALSE),
    Event("GO", 1, FALSE), Event("PING", 0, FALSE) }

\* the arguments of send: one event, or a list of events
SendArguments ==
  {One(e) : e \in SentEvents}
  \cup {Many(q) : q \in UNION {[1..n -> SentEvents] : n \in 0..MaxSendLen}}

\* entry of a call into process_events
Enter(svc, caller) ==
  [svc EXCEPT !.pc = "process_events", !.caller = caller, !.entry = svc.events,
              !.log = <<>>]

\* Service.start(), up to the loop of process_events
Start ==
  /\ service.pc = "idle"
  /\ service' = Enter([service EXCEPT !.active = TRUE], "start")
  /\ last' = [op |-> "start", before |-> service]
  /\ UNCHANGED <<store, exists, cache, nextOid, faults, calls, proc>>

\* Service.stop()
Stop ==
  /\ service.pc = "idle"
  /\ service' = [service EXCEPT !.active = FALSE]
  /\ last' = [op |-> "stop", before |-> service]
  /\ UNCHANGED <<store, exists, cache, nextOid, faults, calls, proc>>

\* Service.send(events), up to the loop of process_events
Send(events) ==
  /\ service.pc = "idle"
  /\ service.sends < MaxSends
  /\ LET extended == [service EXCEPT !.events = @ \o listify(events), !.sends = @ + 1]
     IN  service' = IF service.active THEN Enter(extended, "send") ELSE extended
  /\ last' = [op |-> "send", before |-> service, events |-> events]
  /\ UNCHANGED <<store, exists, cache, nextOid, faults, calls, proc>>

\* one turn of the loop of process_events
ProcessEvent ==
  /\ service.pc = "process_events"
  /\ service.events # <<>>
  /\ LET event == Head(service.events)
         next_state == transition(service.config, service.state, event)
         ran == run_actions(next_state.actions, 1, next_state.context, service.state, event)
     IN  /\ service' = [service EXCEPT
                          !.events = appendleft_all(Tail(service.events), ran.raised),
                          !.state = [value |-> next_state.value, context |-> ran.context,
                                     actions |-> <<>>],
                          !.log = IF Len(@) < MaxLog THEN Append(@, event) ELSE @]
         /\ last' = [op |-> "process_events", before |-> service, event |-> event,
                     next_state |-> next_state, raised |-> ran.raised]
  /\ UNCHANGED <<store, exists, cache, nextOid, faults, calls, proc>>

\* the loop of process_events ends and the call returns
Return ==
  /\ service.pc = "process_events"
  /\ service.events = <<>>
  /\ service' = [service EXCEPT !.pc = "idle"]
  /\ last' = [op |-> "return", before |-> service]
  /\ UNCHANGED <<store, exists, cache, nextOid, faults, calls, proc>>

\* a Service has been constructed for a machine of one of the configurations
InitService ==
  /\ store = [c \in Colls |-> <<>>]
  /\ exists = [c \in Colls |-> FALSE]
  /\ cache = EmptyCache
  /\ nextOid = FirstOid
  /\ faults = 0
  /\ calls = 0
  /\ last = NoCall
  /\ proc = [p \in Workers |-> Idle]
  /\ service \in {NewService(config) : config \in Configs}

NextService ==
  \/ Start
  \/ Stop
  \/ \E events \in SendArguments : Send(events)
  \/ ProcessEvent
  \/ Return

SpecService == InitService /\ [][NextService]_vars

\* the thread that called start or send keeps running the loop
SpecServiceFair == SpecService /\ WF_vars(ProcessEvent) /\ WF_vars(Return)

(* ------------------------------ the claims ----------------------------- *)
\* the reifying datoms (t, a, _, t, TRUE) of transaction t in a collection
Reifying(coll, t, a) ==
  {i \in DOMAIN store[coll] :
     LET d == store[coll][i] IN d.e = t /\ d.a = a /\ d.t = t /\ d.o}

\* C1: for every t that occurs in the t field of a datom of a collection there
\* is exactly one datom (t, OID_GENERATED_AT_TIME, _, t, true) and exactly one
\* datom (t, OID_VAEM_ID, _, t, true) in it.
ReifiedOnceC1 ==
  \A coll \in Colls :
     \A t \in TxIds(coll) :
        /\ Cardinality(Reifying(coll, t, OID_GENERATED_AT_TIME)) = 1
        /\ Cardinality(Reifying(coll, t, OID_VAEM_ID)) = 1

\* the datoms of all collections
AllDatoms == UNION {Range(store[coll]) : coll \in Colls}

BindingL == << <<Var("l"), Lit>> >>

\* the datoms of the triple (e, OID_QUDT_VALUE, "L") in a collection are one
\* assertion in transaction t1 and one retraction in transaction t2, where e is
\* the ObjectId interned for myns:a
AssertedThenRetracted(coll, t1, t2) ==
  \E e \in {d.e : d \in {x \in AllDatoms : x.a = OID_URIREF /\ x.v = StrV(Unseen)}} :
     /\ cache = (Unseen :> e) @@ cache
     /\ SelectSeq(store[coll], LAMBDA d : d.e = e /\ d.a = OID_QUDT_VALUE /\ d.v = Lit)
          = << Datom(e, OID_QUDT_VALUE, Lit, t1, TRUE),
               Datom(e, OID_QUDT_VALUE, Lit, t2, FALSE) >>

\* C3: after (e, a, v) is asserted in transaction t1 and retracted in a later
\* transaction t2, a query matching the triple as of a cutoff at or after t2
\* does not return the binding, and as of a cutoff in [t1, t2) it does.
RetractionC3 ==
  \A coll \in Colls :
     \A t1, t2 \in TxIds(coll) :
        ( /\ t1 < t2
          /\ last.op = "query"
          /\ last.ok
          /\ last.query_spec = QueryLiteral
          /\ last.coll_hof.coll = coll
          /\ AssertedThenRetracted(coll, t1, t2) )
        => /\ last.coll_hof.oid >= t2 => BindingL \notin Range(last.out)
           /\ (t1 <= last.coll_hof.oid /\ last.coll_hof.oid < t2)
                 => BindingL \in Range(last.out)

\* the OID_URIREF datoms of a collection
UriRefs(coll) == {d \in Range(store[coll]) : d.a = OID_URIREF}

\* C4: in every state reached by a sequence of create_collection, assert_,
\* retract, transact and query calls, in every collection the number of
\* distinct v equals the number of distinct e over the OID_URIREF datoms: no
\* URI string is the value of two of them.
UriInternedOnceC4 ==
  \A coll \in Colls :
     Cardinality({d.v : d \in UriRefs(coll)}) = Cardinality({d.e : d \in UriRefs(coll)})

\* C5: when the resolution of one previously unseen URI is started by every
\* thread concurrently, every call returns the same ObjectId and afterwards the
\* store holds exactly one OID_URIREF datom whose value is the URI.
SingleIdentC5 ==
  (\A p \in Workers : proc[p].pc = "done") =>
     /\ \A p, q \in Workers : proc[p].result = proc[q].result
     /\ Cardinality({<<coll, i>> \in Colls \X (1..(MaxOid * 8)) :
                       /\ i \in DOMAIN store[coll]
                       /\ store[coll][i].a = OID_URIREF
                       /\ store[coll][i].v = StrV(Unseen)}) = 1

\* C6: in every reachable state no decoded shareable ID is the value of two
\* OID_VAEM_ID datoms of a collection that have different entities.
ShareableIdOnceC6 ==
  \A coll \in Colls :
     \A d1, d2 \in {d \in Range(store[coll]) : d.a = OID_VAEM_ID} :
        d1.v = d2.v => d1.e = d2.e

\* a is an initial part of b
IsPrefix(a, b) == Len(a) <= Len(b) /\ SubSeq(b, 1, Len(a)) = a

\* C7: every datom of a collection remains in it, with the same e, a, v, t, o,
\* after a later assert_, retract, transact or query; such a call only appends
\* datoms, of a transaction that is new to the collection.
AppendOnlyC7 ==
  [][ last'.op # "create_collection" =>
        \A coll \in Colls :
           /\ IsPrefix(store[coll], store'[coll])
           /\ \A i \in (Len(store[coll]) + 1)..Len(store'[coll]) :
                 store'[coll][i].t \notin TxIds(coll) ]_vars

\* a retraction has been appended and the earlier assertion of the same
\* (e, a, v) is still in the collection
WitnessC7 ==
  \E coll \in Colls :
     \E i, j \in DOMAIN store[coll] :
        /\ i < j
        /\ store[coll][i].o
        /\ ~store[coll][j].o
        /\ store[coll][i].t < store[coll][j].t
        /\ store[coll][i].e = store[coll][j].e
        /\ store[coll][i].a = store[coll][j].a
        /\ store[coll][i].v = store[coll][j].v

\* C8: a transaction is all-or-nothing: after a call that wrote a batch, also
\* one that failed, either every document of the batch (the two reifying
\* datoms included) is in the collection or none is.
AllOrNothingC8 ==
  last.op \in {"transact", "create_collection"} =>
     LET stored == Range(last.docs) \cap Range(store[last.coll])
     IN  stored = {} \/ stored = Range(last.docs)

\* C9: the cursor of the higher-order filter of an as-of view with cutoff t0,
\* given a caller's filter F, holds exactly the datoms of the collection that
\* match F and have t <= t0.
AsOfExactC9 ==
  (last.op = "docs_for" /\ last.ok) =>
     Range(last.cursor)
        = {d \in Range(store[last.coll]) : Matches(d, last.filter_) /\ d.t <= last.oid}

\* C10: the call of the higher-order filter of an as-of view leaves the
\* caller's filter F as it was.
FilterUnchangedC10 ==
  (last.op = "docs_for" /\ last.ok) => last.filter_after = last.filter_

\* C11: assert_(triple) and retract(triple) only compile: for every triple, also
\* one that names a URI never seen before, they return the raw operations and
\* leave the stored datoms as they were; only transact writes datoms.
CompileOnlyC11 ==
  [][ last'.op \in {"assert_", "retract"} => store' = store ]_vars

\* the ObjectIds that occur in the datoms of the collections
StoredIdents ==
  UNION {{d.e, d.a, d.t} \cup (IF IsOid(d.v) THEN {d.v.n} ELSE {}) : d \in AllDatoms}

\* the three raw operations of a structured literal with value L on entity e
\* and attribute a, for some ObjectId S and decoded shareable ID
IsStructuredLiteral(ops, e, a, L, o) ==
  /\ Len(ops) = 3
  /\ IsOid(ops[1].v)
  /\ LET S == ops[1].v.n
     IN  /\ ops[1] = RawOp(e, a, OidV(S), o)
         /\ ops[2] = RawOp(S, OID_QUDT_VALUE, L, o)
         /\ ops[3].e = S /\ ops[3].a = OID_VAEM_ID /\ ops[3].o = o
         /\ ops[3].v.k = "int" /\ ops[3].v.n \in 1..MaxEid

\* the ObjectId interned for myns:p
OidOfP == cache[prefix_expand(<<StrV(<<"myns", ":", "p">>)>>, additional_prefixes)[1].s]

\* C12: for a triple (E, A, L) with a primitive literal L and A neither vaem:id
\* nor qudt:value, assert_ returns exactly the three operations (e, a, S),
\* (S, OID_QUDT_VALUE, L), (S, OID_VAEM_ID, d) with one fresh ObjectId S that
\* no stored datom mentions, and the transaction that transacts them adds
\* exactly these three datoms and its two reifying datoms; when A is
\* literal-valued or the value is a URI, assert_ returns exactly one operation.
StructuredLiteralC12 ==
  /\ (last.op = "assert_" /\ last.ok /\ last.statement = StmtStructured) =>
        /\ IsStructuredLiteral(last.ops, OID_VAEM_ID, OidOfP, Lit, TRUE)
        /\ last.ops[1].v.n \notin StoredIdents
  /\ (last.op = "assert_" /\ last.ok
         /\ last.statement \in {StmtLiteralValued, StmtUriValued}) =>
        Len(last.ops) = 1
  /\ (last.op = "transact" /\ last.ok /\ last.batch = <<Op(StmtStructured, TRUE)>>) =>
        /\ Len(last.docs) = 5
        /\ IsStructuredLiteral([i \in 1..3 |-> RawOp(last.docs[i].e, last.docs[i].a,
                                                     last.docs[i].v, last.docs[i].o)],
                               OID_VAEM_ID, OidOfP, Lit, TRUE)
        /\ \A i \in 1..5 : last.docs[i].t = last.docs[4].e
        /\ last.docs[4].a = OID_GENERATED_AT_TIME
        /\ last.docs[5].e = last.docs[4].e /\ last.docs[5].a = OID_VAEM_ID
        /\ SelectSeq(store[last.coll], LAMBDA d : d.t = last.docs[4].e) = last.docs

\* assert_ has compiled a statement with a literal value and a user attribute
WitnessC12 ==
  /\ last.op = "assert_"
  /\ last.ok
  /\ last.statement = StmtStructured
  /\ Len(last.ops) = 3

\* the datoms of the view of a higher-order filter: those of its collection
\* with t up to its cutoff
Visible(coll_hof) == {d \in Range(store[coll_hof.coll]) : d.t <= coll_hof.oid}

\* an OID_URIREF or OID_VAEM_ID datom of the view has the ObjectId as entity
HasRef(coll_hof, oid) ==
  \E d \in Visible(coll_hof) : d.e = oid /\ d.a \in {OID_URIREF, OID_VAEM_ID}

\* C13: refs_for(ids) fails if and only if some requested ObjectId has neither
\* an OID_URIREF nor an OID_VAEM_ID datom in the view, also when the list names
\* one ObjectId several times, as sub_refs builds it when the ObjectId is bound
\* in several result rows.
RefsForFailsC13 ==
  (last.op = "query" /\ last.refs.called) =>
     (~last.refs.ok <=> \E oid \in Range(last.refs.oids) : ~HasRef(last.coll_hof, oid))

\* the ObjectIds that occur as e, as a or as value of a datom
IdentsOf(d) == {d.e, d.a} \cup (IF IsOid(d.v) THEN {d.v.n} ELSE {})

\* C14: every ObjectId that occurs as e, as a or as an ObjectId-valued v of a
\* stored datom has, in the same collection, an OID_URIREF or an OID_VAEM_ID
\* datom with that ObjectId as entity, also when calls target different
\* collections and share the cache of the process.
EveryIdentHasRefC14 ==
  \A coll \in Colls :
     \A d \in Range(store[coll]) :
        \A oid \in IdentsOf(d) :
           \E r \in Range(store[coll]) : r.e = oid /\ r.a \in {OID_URIREF, OID_VAEM_ID}

\* the ObjectId interned for myns:a has an OID_VAEM_ID datom in the view
HasUriAndId(coll_hof) ==
  \E u, d \in Visible(coll_hof) :
     /\ u.a = OID_URIREF /\ u.v = StrV(Unseen)
     /\ d.a = OID_VAEM_ID /\ d.e = u.e

IsBootstrap(docs) ==
  /\ Len(docs) = 6
  /\ \A i \in 1..6 : docs[i].t = docs[5].e /\ docs[i].o
  /\ \A i \in 1..4 :
        docs[i].e = i - 1 /\ docs[i].a = OID_URIREF /\ docs[i].v = CORE_ATTRIBUTES[i]
  /\ docs[5].a = OID_GENERATED_AT_TIME
  /\ docs[6].e = docs[5].e /\ docs[6].a = OID_VAEM_ID

\* C16: after create_collection(name) on a database in which the collection
\* did not exist, the collection name holds exactly six datoms with one t, the
\* four OID_URIREF datoms of the reserved ObjectIds and the two reifying datoms
\* of the bootstrap transaction, and no other collection has been written.
BootstrapC16 ==
  [][ ( /\ last' # last
        /\ last'.op = "create_collection"
        /\ last'.ok
        /\ ~exists[last'.name] )
      => /\ IsBootstrap(store'[last'.name])
         /\ \A c \in Colls \ {last'.name} : store'[c] = store[c] ]_vars

\* C17: query raises an error, and returns no result, for every where-pattern
\* with a clause that is not a sequence of exactly three terms and for every
\* predicate mapping with an operator outside $eq, $ne, $gt, $gte, $lt, $lte, $in.
RejectsMalformedC17 ==
  (last.op = "query" /\ last.query_spec \in MalformedQueries) => ~last.ok

\* the statements with a literal as entity or attribute, and for _compile_to_raw
\* also the one with a literal value under an attribute that is not literal-valued
InvalidFor(fn) ==
  {StmtLiteralEntity, StmtLiteralAttribute}
  \cup (IF fn = "_compile_to_raw" THEN {StmtStructured} ELSE {})

\* C18: compiling a statement whose entity or attribute is a literal, or whose
\* value is a literal while the attribute is not literal-valued, fails with an
\* error and leaves the store and the cache of URIs as they were.
FailedCompileC18 ==
  [][ (last'.op \in Compilers /\ last'.statement \in InvalidFor(last'.op))
      => /\ ~last'.ok
         /\ store' = store
         /\ cache' = cache ]_vars

\* a compilation has failed for a statement that names a URI which is neither
\* in the cache nor in the store
WitnessC18 ==
  /\ last.op \in Compilers
  /\ ~last.ok
  /\ last.statement = StmtLiteralEntity
  /\ Unseen \notin DOMAIN cache
  /\ \A d \in AllDatoms : d.v # StrV(Unseen)

\* the ObjectId interned for s:dateModified in collection main
DateModifiedOids ==
  {d.e : d \in {x \in Range(store["main"]) :
                  /\ x.a = OID_URIREF
                  /\ x.v = prefix_expand(<<StrV(<<"s", ":", "dateModified">>)>>,
                                         additional_prefixes)[1]}}

\* the datoms of main that state s:dateModified of a key
KeyDatoms == {d \in Range(store["main"]) : d.a \in DateModifiedOids}

\* the keys that the datoms of KeyDatoms are about
KeysAsserted ==
  {i \in 1..MaxKeys :
     \E d \in KeyDatoms, u \in Range(store["main"]) :
        /\ u.e = d.e
        /\ u.a = OID_URIREF
        /\ u.v = prefix_expand(<<StrV(<<"myns", ":", "key", ToString(i)>>)>>,
                               additional_prefixes)[1]}

\* the row of the result for key i
KeyRow(i) ==
  << <<Var("key"), StrV(<<"myns", ":", "key", ToString(i)>>)>>, <<Var("dt"), DateModified>> >>

\* C19: after one transaction that asserts N triples (k_i, A, L) with N distinct
\* URI entities and a literal L, the query [[?key, A, ?sv], [?sv, qudt:value,
\* {?dt: P}]] with select [?key, ?dt], as of now, returns exactly N rows when L
\* satisfies P: one row per k_i, with ?key in compact form and ?dt equal to L.
SelfTestC19 ==
  ( /\ last.op = "query"
    /\ last.query_spec = self_test_query
    /\ KeyDatoms # {}
    /\ Cardinality({d.t : d \in KeyDatoms}) = 1 )
  => /\ last.ok
     /\ Len(last.out) = Cardinality(KeyDatoms)
     /\ Cardinality(KeysAsserted) = Cardinality(KeyDatoms)
     /\ \A i \in KeysAsserted :
           \E j \in DOMAIN last.out : last.out[j] = KeyRow(i)

\* the query of the self-test has run after one transaction with MaxKeys keys
WitnessC19 ==
  /\ last.op = "query"
  /\ last.query_spec = self_test_query
  /\ Cardinality(KeyDatoms) = MaxKeys
  /\ Cardinality({d.t : d \in KeyDatoms}) = 1
  /\ Len(last.out) = MaxKeys

\* a reader holds a view whose cutoff is a transaction that was committed
\* when the view was taken
ViewHeld ==
  /\ last.op = "as_of"
  /\ last.coll_hof.ok
  /\ last.committed

\* C20: once an as-of view has a cutoff taken from a committed transaction, the
\* set of datoms it exposes for a given filter never changes afterwards,
\* whatever transactions other writers start, interleave or commit: a later
\* read through the view gives the datoms the first read gave.
StableViewC20 ==
  ViewHeld => Range(docs_for(World, last.coll_hof, last.filter_).cursor) = Range(last.cursor)

\* the instants up to now
Instants == {TimeV(n) : n \in 0..generation_time(nextOid)}

\* C21: as_of(coll, tau) for an instant tau takes as cutoff the greatest
\* transaction whose recorded generation time is <= tau, so that the view shows
\* a datom if and only if the generation instant of its transaction is <= tau.
AsOfInstantC21 ==
  \A coll \in Colls, tau \in Instants :
     LET coll_hof == as_of(World, coll, tau)
     IN  coll_hof.ok =>
            Range(docs_for(World, coll_hof, <<>>).cursor)
               = {d \in Range(store[coll]) : generation_time(d.t) <= tau.n}

\* a binding as a map: the set of its items
AsMap(binding) == Range(binding)

\* the natural join of lists of bindings: the unions of one binding of each
\* list in which no variable has two values
NaturalJoin(lists) ==
  LET longest == CHOOSE n \in {Len(lists[k]) : k \in DOMAIN lists} :
                    \A k \in DOMAIN lists : Len(lists[k]) <= n
      picks == {f \in [DOMAIN lists -> 1..longest] :
                  \A k \in DOMAIN lists : f[k] \in DOMAIN lists[k]}
      Joined(f) == UNION {AsMap(lists[k][f[k]]) : k \in DOMAIN lists}
  IN  {Joined(f) : f \in {g \in picks :
                             \A x, y \in Joined(g) : x[1] = y[1] => x[2] = y[2]}}

\* C22: the valid bindings of a pattern are the natural join of the binding
\* lists of its clauses, and the set of bindings is the same for every
\* permutation of the clauses.
NaturalJoinC22 ==
  (last.op = "get_valid_bindings" /\ last.ok) =>
     \A bindings \in {last.bindings} \cup last.permuted :
        {AsMap(b) : b \in Range(bindings)} = NaturalJoin(last.condition_bindings)

\* a pattern of three clauses has been matched, with pairs of bindings that
\* agree and pairs that do not
WitnessC22 ==
  /\ last.op = "get_valid_bindings"
  /\ last.ok
  /\ Len(last.conditions) = 3
  /\ Len(last.bindings) > 1
  /\ Len(last.bindings) < Len(last.condition_bindings[1]) * Len(last.condition_bindings[2])
                             * Len(last.condition_bindings[3])

\* the clauses of the last pattern that have no variable
GroundClauses ==
  {k \in DOMAIN last.conditions :
     \A i \in DOMAIN last.conditions[k] :
        ~IsDict(last.conditions[k][i]) /\ ~IsVar(last.conditions[k][i])}

\* C23: every row of a clause's cursor yields a binding, a row being discarded
\* only when it conflicts with a ground term; hence a clause without variables
\* that a visible datom matches does not remove the bindings the other clauses
\* produce.
RowsBoundC23 ==
  (last.op = "get_valid_bindings" /\ last.ok) =>
     /\ \A k \in DOMAIN last.conditions :
           Len(last.condition_bindings[k]) = Len(last.cursors[k])
     /\ \A k \in GroundClauses :
           last.cursors[k] # <<>> =>
              {AsMap(b) : b \in Range(last.bindings)}
                 = NaturalJoin([j \in 1..(Len(last.conditions) - 1) |->
                                  last.condition_bindings[IF j < k THEN j ELSE j + 1]])

\* the entries of the base map extended with the caller's whose expansion the
\* last compacted value starts with
MatchingPrefixes ==
  {x \in Range(Update(PREFIXES, last.use_prefixes)) : StartsWith(last.v.s, x[2])}

\* C24: prefix_compact rewrites a URI to prefix:local with, among the prefixes
\* of the base map extended with the caller's whose expansion the URI starts
\* with, the one of the longest expansion, whatever the order of the entries.
LongestPrefixC24 ==
  (last.op = "prefix_compact" /\ MatchingPrefixes # {}) =>
     /\ \E x \in MatchingPrefixes :
           /\ \A y \in MatchingPrefixes : Len(y[2]) <= Len(x[2])
           /\ last.out = StrV(<<x[1], ":">> \o SubSeq(last.v.s, Len(x[2]) + 1, Len(last.v.s)))
     /\ last.reordered = {last.out}

\* the events of a sequence that callers sent
SentOf(events) == SelectSeq(events, LAMBDA e : ~e.raised)

\* a send on a service that is not active has only appended to the queue
InactiveSendAppends ==
  (last.op = "send" /\ ~last.before.active) =>
     service = [last.before EXCEPT !.events = @ \o listify(last.events), !.sends = @ + 1]

\* C25: while a Service is not active, send only appends the events to the
\* queue and the machine's state value and context do not change; the next
\* start processes all queued events, in the order in which they were sent.
InactiveQueuesC25 ==
  /\ []InactiveSendAppends
  /\ (service.pc = "process_events" /\ service.caller = "start" /\ service.entry # <<>>)
       ~> (service.pc = "idle" /\ service.events = <<>> /\ SentOf(service.log) = service.entry)

\* C26, as stated: when the actions of a transition include a raise action,
\* the raised event is put at the front of the queue and is processed next,
\* before every event that was already waiting in the queue.
RaisedNextC26 ==
  (last.op = "process_events" /\ last.raised # <<>>) =>
     \A i \in DOMAIN last.raised :
        service.events = <<last.raised[i]>> \o Tail(last.before.events)

\* C26, amended: every turn of the loop processes the event at the front of
\* the queue, and the events a transition raises are put in front of the
\* events that were waiting, the one raised last first.
RaisedFirstC26 ==
  last.op = "process_events" =>
     /\ last.event = Head(last.before.events)
     /\ service.events = Reverse(last.raised) \o Tail(last.before.events)

\* a transition has raised two events while another event was waiting
WitnessC26 ==
  /\ last.op = "process_events"
  /\ Len(last.raised) = 2
  /\ Tail(last.before.events) # <<>>

\* C27: every start, and every send on an active service, returns with the
\* event queue empty.
ReturnsC27 ==
  (service.pc = "process_events") ~> (service.pc = "idle" /\ service.events = <<>>)

\* the options configured for the last processed event in the state it met,
\* and those that have no guard or whose guard holds
OptionsMet ==
  LET x == <<last.before.state.value, last.event.type>>
  IN  IF x \in DOMAIN States(last.before.config)
      THEN listify(States(last.before.config)[x]) ELSE <<>>
Qualifying ==
  {i \in DOMAIN OptionsMet :
     \/ ~OptionsMet[i].has_cond
     \/ guard(OptionsMet[i].cond, last.before.state.context, last.event)}

Assigning(k) ==
  {i \in DOMAIN last.next_state.actions :
     /\ action_type(last.next_state.actions[i]) = "assign"
     /\ k \in DOMAIN exec(last.next_state.actions[i], last.before.state.context, last.event)}

\* C29: within one transition every assign action computes its update from
\* the context as it was before the transition; the updates are merged in
\* action order, a later action overriding an earlier one on the same key, and
\* keys not assigned keep their value.
AssignFromOldC29 ==
  last.op = "process_events" =>
     \A k \in DOMAIN last.before.state.context :
        IF Assigning(k) = {}
        THEN service.state.context[k] = last.before.state.context[k]
        ELSE \E i \in Assigning(k) :
                /\ \A j \in Assigning(k) : j <= i
                /\ service.state.context[k]
                     = exec(last.next_state.actions[i], last.before.state.context,
                            last.event)[k]

\* a transition has assigned x twice and copied the former x, which differs
\* from both values assigned, to y
WitnessC29 ==
  /\ last.op = "process_events"
  /\ Cardinality(Assigning("x")) = 2
  /\ Assigning("y") # {}
  /\ last.event.data # last.before.state.context["x"]
  /\ service.state.context["x"] # last.event.data
  /\ DOMAIN service.state.context = {"x", "y", "z"}

====
